---- MODULE Spec2Model ----
(***************************************************************************)
(* Model of the Kamui VRF coordinator (kamui-program/src/processor.rs and  *)
(* state.rs).  Every instruction handler is an operator on the "world" of  *)
(* program accounts                                                        *)
(*     [subs, pools, reqs, res, reg, orc]                                  *)
(* that returns the world it leaves behind in the account buffers, the     *)
(* ProgramResult it returns and the events it emits; the host keeps that   *)
(* world only when the result is Ok.  Accounts are passed to a handler by  *)
(* the caller, so every account a handler reads is an input of the action. *)
(* keccak is modelled as an injective tuple constructor.                   *)
(*                                                                         *)
(* An account is the record stored in it together with data_len, the size  *)
(* of its data buffer.  Borsh's try_from_slice accepts a buffer only when  *)
(* the record fills it exactly, and serialize writes a record only when    *)
(* the buffer has room for it, so the handlers are modelled with the sizes *)
(* they create accounts with.  A RefCell borrow of an account's data lasts *)
(* to the end of the scope that took it: a second, mutable borrow of the   *)
(* same account inside that scope, made by the handler or by the system    *)
(* program call it invokes, fails with AccountBorrowFailed.  Where the     *)
(* source writes through a borrow it took with try_borrow_data the build   *)
(* refuses it; such a borrow is read as try_borrow_mut_data, the one       *)
(* change that makes the handler build.                                    *)
(***************************************************************************)
EXTENDS Integers, Sequences, FiniteSets, TLC

(***************************************************************************)
(* Program constants (state.rs).                                           *)
(***************************************************************************)
MINIMUM_REQUEST_CONFIRMATIONS == 1
MAXIMUM_REQUEST_CONFIRMATIONS == 255
MINIMUM_CALLBACK_GAS_LIMIT == 10000
MAXIMUM_CALLBACK_GAS_LIMIT == 1000000
\* a limit one short of the documented 100 words
MAXIMUM_RANDOM_WORDS_short == 100 - 1
MAXIMUM_RANDOM_WORDS == 100
MAX_REQUESTS_PER_SUBSCRIPTION == 100
REQUEST_EXPIRY_SLOTS == 10800
ORACLE_ROTATION_FREQUENCY == 500
U16_MAX == 65535

(***************************************************************************)
(* Bounds of the model.                                                    *)
(***************************************************************************)
MaxTicks == 2
MaxReqs == 2
MaxFunds == 1
MaxBatch == 2

(***************************************************************************)
(* Small input sets.                                                       *)
(***************************************************************************)
Users == {"alice", "bob"}
SubAccts == {"s1", "s2"}
PoolIds == {1}
NoAccount == "none"
\* the registry account before initialize_oracle_registry
NoRegistry == [initialized |-> FALSE]
Admin == "admin"

VARIABLES slot, ticks, subscriptions, pools, requests, results,
          registry, oracles, anchor, testprog, lz, codec, legacy

\* the accounts of the coordinator (kamui-program/src)
coordinator == <<slot, ticks, subscriptions, pools, requests, results,
                 registry, oracles>>

vars == <<slot, ticks, subscriptions, pools, requests, results,
          registry, oracles, anchor, testprog, lz, codec, legacy>>

(***************************************************************************)
(* Helpers.                                                                *)
(***************************************************************************)
SatSub(a, b) == IF a >= b THEN a - b ELSE 0

SatAdd(a, b, max) == IF a + b > max THEN max ELSE a + b

\* u32 and u64 counters and balances: within the bounds of this model they
\* stay far below 2^32, so saturating_add and checked_add on them are plain
\* additions and the overflow branch of checked_add is never taken.
AddWide(a, b) == a + b

MaxOf(S) == CHOOSE m \in S : \A x \in S : x <= m

\* keccak::hash over the concatenated fields: injective on the fields.
Keccak(fields) == <<"keccak", fields>>

\* request_id[0..16]: the leading half of a digest (collision free here).
Truncate16(id) == <<"fp16", id>>

\* Vec::iter().position(|x| *x == key)
Position(s, key) ==
  IF \E i \in 1..Len(s) : s[i] = key
  THEN CHOOSE i \in 1..Len(s) : s[i] = key /\ \A j \in 1..(i - 1) : s[j] # key
  ELSE 0

\* Vec::remove(pos)
RemoveAt(s, pos) == [i \in 1..(Len(s) - 1) |-> IF i < pos THEN s[i] ELSE s[i + 1]]

RemoveKey(s, key) == IF Position(s, key) = 0 THEN s ELSE RemoveAt(s, Position(s, key))

Contains(s, x) == \E i \in 1..Len(s) : s[i] = x

Ret(w, err, ev) == [w |-> w, err |-> err, ev |-> ev]

\* The program derived address of a pool account / request account / result
\* account is a function of its seeds; the seeds stand for the address.
PoolAddress(sub, pool_id) == <<sub, pool_id>>

(***************************************************************************)
(* state.rs: RequestPool                                                   *)
(***************************************************************************)
\* slot and unix_timestamp both come from the Clock sysvar; the timestamp is
\* determined by the slot in this model.
generate_request_id(seed, requester, subscription, pool_id, request_index, now) ==
  Keccak(<<seed, requester, subscription, now, now, pool_id, request_index>>)

is_request_expired(request_slot, current_slot) ==
  SatSub(current_slot, request_slot) > REQUEST_EXPIRY_SLOTS

next_request_index(pool) ==
  IF DOMAIN pool.requests = {} THEN 0 ELSE MaxOf(DOMAIN pool.requests) + 1

\* the filter of lines 207-212
ExpiredKeys(pool, now) ==
  {k \in DOMAIN pool.requests :
     /\ pool.requests[k].status = "Pending"
     /\ is_request_expired(pool.requests[k].request_slot, now)}

\* returns the pool after the call and the count
clean_expired_requests(pool, now) ==
  [pool |-> [pool EXCEPT !.requests =
               [k \in DOMAIN pool.requests |->
                  IF k \in ExpiredKeys(pool, now)
                  THEN [pool.requests[k] EXCEPT !.status = "Expired"]
                  ELSE pool.requests[k]]],
   count |-> Cardinality(ExpiredKeys(pool, now))]

(***************************************************************************)
(* state.rs: the Borsh length of each record, field by field.              *)
(***************************************************************************)
SubscriptionLen(sub) == 32 + 8 + 8 + 1 + 2 + 2 + 8 + (4 + 16 * Len(sub.request_keys)) + (4 + Len(sub.pool_ids))

RequestSummaryLen == 32 + 32 + 8 + 1 + 8 + 8

\* requests is a map from the u32 index to the summary
PoolLen(pool) == 32 + 1 + 4 + 4 + (4 + (4 + RequestSummaryLen) * Cardinality(DOMAIN pool.requests)) + 8

RequestLen(request) == 32 + 32 + 32 + (4 + Len(request.callback_data)) + 8 + 1 + 4 + 8 + 1 + 4 + 32

RegistryLen(reg) == 32 + 2 + 8 + 8 + 8 + (4 + 32 * Len(reg.oracles))

OracleLen == 32 + 32 + 8 + 2 + 8 + 1 + 8 + 8

\* The oracle instructions take their registry and oracle accounts from the
\* caller and check the discriminator of an account, never its address or
\* its owner.  Beside the accounts of the program a caller can pass any
\* account of another program that carries the discriminator: here a
\* registry that names alice as its admin and an oracle account of o1, each
\* of the size of its record.
RegistryAddress == "registry"

ForeignAccounts ==
  ("forged_registry" :>
     [kind |-> "registry", initialized |-> TRUE, admin |-> "alice",
      oracle_count |-> 1, min_stake |-> 1,
      rotation_frequency |-> ORACLE_ROTATION_FREQUENCY, last_rotation |-> 0,
      oracles |-> <<"o1">>, data_len |-> 8 + 32 + 2 + 8 + 8 + 8 + 4 + 32])
  @@ ("forged_oracle" :>
        [kind |-> "oracle", authority |-> "o1", vrf_key |-> "pk1",
         stake_amount |-> 2, reputation |-> 0, last_active |-> 0,
         is_active |-> TRUE, fulfillment_count |-> 0, failure_count |-> 0,
         data_len |-> 8 + OracleLen])

\* ext: the accounts of other programs, which no instruction can change
World == [subs |-> subscriptions, pools |-> pools, reqs |-> requests, res |-> results,
          reg |-> registry, orc |-> oracles, ext |-> ForeignAccounts]

\* registry_data.len() <= 8 || &registry_data[0..8] != b"REGISTRY" is refused
registry_account_data(w, acct) ==
  IF acct = RegistryAddress THEN w.reg
  ELSE IF acct \in DOMAIN w.ext /\ w.ext[acct].kind = "registry" THEN w.ext[acct]
  ELSE NoRegistry

write_registry(w, acct, reg) ==
  IF acct = RegistryAddress THEN [w EXCEPT !.reg = reg] ELSE [w EXCEPT !.ext[acct] = reg]

\* oracle_data.len() <= 8 || &oracle_data[0..8] != b"ORACLE\0\0" is refused
is_oracle_account(w, acct) ==
  \/ acct \in DOMAIN w.orc
  \/ acct \in DOMAIN w.ext /\ w.ext[acct].kind = "oracle"

oracle_account_data(w, acct) == IF acct \in DOMAIN w.orc THEN w.orc[acct] ELSE w.ext[acct]

write_oracle(w, acct, oracle) ==
  IF acct \in DOMAIN w.orc THEN [w EXCEPT !.orc[acct] = oracle]
  ELSE [w EXCEPT !.ext[acct] = oracle]

\* T::try_from_slice(&data[8..]): the record must fill the buffer
try_from_slice(data_len, record_len) ==
  IF data_len - 8 = record_len THEN "Ok"
  ELSE IF data_len - 8 > record_len THEN "BorshIoError(Not all bytes read)"
  ELSE "BorshIoError(Unexpected length of input)"

\* record.serialize(&mut &mut data[8..]): the record must fit the buffer.
\* A record that does not fit is written as far as the buffer goes; the
\* account then holds a record longer than its buffer, which no later
\* try_from_slice accepts.
serialize(data_len, record_len) ==
  IF record_len <= data_len - 8 THEN "Ok"
  ELSE "BorshIoError(failed to write whole buffer)"

(***************************************************************************)
(* processor.rs: subscription management                                   *)
(***************************************************************************)
process_create_enhanced_subscription(w, is_signer, owner, sub_acct, min_balance, confirmations, max_requests) ==
  IF ~is_signer THEN Ret(w, "MissingRequiredSignature", <<>>)
  ELSE IF confirmations < MINIMUM_REQUEST_CONFIRMATIONS
          \/ confirmations > MAXIMUM_REQUEST_CONFIRMATIONS
  THEN Ret(w, "InvalidRequestConfirmations", <<>>)
  ELSE IF max_requests = 0 \/ max_requests > MAX_REQUESTS_PER_SUBSCRIPTION
  THEN Ret(w, "InvalidRequestParameters", <<>>)
  ELSE IF sub_acct \in DOMAIN w.subs
  THEN Ret(w, "AccountAlreadyInUse", <<>>)
  ELSE Ret([w EXCEPT !.subs = @ @@ (sub_acct :>
              [owner |-> owner, balance |-> 0, min_balance |-> min_balance,
               confirmations |-> confirmations, active_requests |-> 0,
               max_requests |-> max_requests, request_counter |-> 0,
               request_keys |-> <<>>, pool_ids |-> <<>>,
               data_len |-> 8 + 32 + 8 + 8 + 1 + 2 + 2 + 8 + 4 + 4])],
           "Ok",
           <<[type |-> "SubscriptionCreated", subscription |-> sub_acct,
              owner |-> owner, min_balance |-> min_balance,
              max_requests |-> max_requests]>>)

\* The subscription's data is borrowed at line 1549 and stays borrowed while
\* the system program's transfer is invoked with the subscription among its
\* accounts: the invocation cannot borrow it and the call ends there.
process_fund_subscription(w, is_signer, funder, sub_acct, amount) ==
  IF ~is_signer THEN Ret(w, "MissingRequiredSignature", <<>>)
  ELSE IF sub_acct \notin DOMAIN w.subs THEN Ret(w, "InvalidAccountData", <<>>)
  ELSE IF try_from_slice(w.subs[sub_acct].data_len, SubscriptionLen(w.subs[sub_acct])) # "Ok"
  THEN Ret(w, try_from_slice(w.subs[sub_acct].data_len, SubscriptionLen(w.subs[sub_acct])), <<>>)
  ELSE Ret(w, "AccountBorrowFailed", <<>>)

\* The pool account is created with 1024 bytes more than its record and
\* written; the subscription, still borrowed from line 260, cannot be
\* borrowed again at line 349 to record the pool id.
process_initialize_request_pool(w, now, is_signer, owner, sub_acct, pool_acct, pool_id, max_size) ==
  IF ~is_signer THEN Ret(w, "MissingRequiredSignature", <<>>)
  ELSE IF sub_acct \notin DOMAIN w.subs THEN Ret(w, "InvalidAccountData", <<>>)
  ELSE IF try_from_slice(w.subs[sub_acct].data_len, SubscriptionLen(w.subs[sub_acct])) # "Ok"
  THEN Ret(w, try_from_slice(w.subs[sub_acct].data_len, SubscriptionLen(w.subs[sub_acct])), <<>>)
  ELSE IF w.subs[sub_acct].owner # owner
  THEN Ret(w, "InvalidSubscriptionOwner", <<>>)
  ELSE IF Contains(w.subs[sub_acct].pool_ids, pool_id)
  THEN Ret(w, "InvalidPoolId", <<>>)
  ELSE IF pool_acct # PoolAddress(sub_acct, pool_id)
  THEN Ret(w, "InvalidArgument", <<>>)
  ELSE IF pool_acct \in DOMAIN w.pools
  THEN Ret(w, "AccountAlreadyInUse", <<>>)
  ELSE Ret([w EXCEPT
              !.pools = @ @@ (pool_acct :>
                 [subscription |-> sub_acct, pool_id |-> pool_id,
                  request_count |-> 0, max_size |-> max_size,
                  requests |-> <<>>, last_processed_slot |-> now,
                  data_len |-> 8 + 32 + 1 + 4 + 4 + 4 + 8 + 1024])],
           "AccountBorrowFailed",
           <<>>)

(***************************************************************************)
(* processor.rs: request_randomness                                        *)
(***************************************************************************)
\* the capacity check of line 446
pool_is_full(pool) == pool.request_count >= pool.max_size

\* request_account is "derived" when the caller passes the address derived
\* from the new request id, and any other value otherwise.  The request
\* account is created and written; the subscription, still borrowed from
\* line 404, cannot be borrowed again at line 567, so the subscription and
\* the pool are never written.
process_request_randomness(w, now, is_signer, requester, request_account, sub_acct, pool_acct, seed, callback_data, num_words, minimum_confirmations, callback_gas_limit, pool_id) ==
  IF ~is_signer THEN Ret(w, "MissingRequiredSignature", <<>>)
  ELSE IF num_words = 0 \/ num_words > MAXIMUM_RANDOM_WORDS
  THEN Ret(w, "InvalidNumberOfWords", <<>>)
  ELSE IF minimum_confirmations < MINIMUM_REQUEST_CONFIRMATIONS
          \/ minimum_confirmations > MAXIMUM_REQUEST_CONFIRMATIONS
  THEN Ret(w, "InvalidRequestConfirmations", <<>>)
  ELSE IF callback_gas_limit < MINIMUM_CALLBACK_GAS_LIMIT
          \/ callback_gas_limit > MAXIMUM_CALLBACK_GAS_LIMIT
  THEN Ret(w, "InvalidCallbackGasLimit", <<>>)
  ELSE IF sub_acct \notin DOMAIN w.subs THEN Ret(w, "InvalidAccountData", <<>>)
  ELSE IF try_from_slice(w.subs[sub_acct].data_len, SubscriptionLen(w.subs[sub_acct])) # "Ok"
  THEN Ret(w, try_from_slice(w.subs[sub_acct].data_len, SubscriptionLen(w.subs[sub_acct])), <<>>)
  ELSE IF w.subs[sub_acct].balance < w.subs[sub_acct].min_balance
  THEN Ret(w, "InsufficientBalance", <<>>)
  ELSE IF w.subs[sub_acct].active_requests >= w.subs[sub_acct].max_requests
  THEN Ret(w, "SubscriptionRequestLimitExceeded", <<>>)
  ELSE IF ~Contains(w.subs[sub_acct].pool_ids, pool_id)
  THEN Ret(w, "InvalidPoolId", <<>>)
  ELSE IF pool_acct \notin DOMAIN w.pools
  THEN Ret(w, "RequestPoolNotInitialized", <<>>)
  ELSE IF try_from_slice(w.pools[pool_acct].data_len, PoolLen(w.pools[pool_acct])) # "Ok"
  THEN Ret(w, try_from_slice(w.pools[pool_acct].data_len, PoolLen(w.pools[pool_acct])), <<>>)
  ELSE IF w.pools[pool_acct].subscription # sub_acct
          \/ w.pools[pool_acct].pool_id # pool_id
  THEN Ret(w, "InvalidAccountData", <<>>)
  ELSE IF pool_is_full(w.pools[pool_acct])
  THEN Ret(w, "PoolIsFull", <<>>)
  ELSE
    LET request_index == next_request_index(w.pools[pool_acct])
        request_id == generate_request_id(seed, requester, sub_acct, pool_id,
                                          request_index, now)
        request ==
          [subscription |-> sub_acct, seed |-> seed, requester |-> requester,
           callback_data |-> callback_data, request_slot |-> now,
           status |-> "Pending", num_words |-> num_words,
           callback_gas_limit |-> callback_gas_limit, pool_id |-> pool_id,
           request_index |-> request_index, request_id |-> request_id,
           data_len |-> 8 + 32 + 32 + 32 + 4 + Len(callback_data) + 8 + 1 + 4 + 8 + 1 + 4 + 32]
    IN IF request_account # "derived" THEN Ret(w, "InvalidArgument", <<>>)
       ELSE IF request_id \in DOMAIN w.reqs
       THEN Ret(w, "AccountAlreadyInUse", <<>>)
       ELSE Ret([w EXCEPT !.reqs = @ @@ (request_id :> request)],
                "AccountBorrowFailed",
                <<>>)

(***************************************************************************)
(* ECVRF (section 4.2): the primitive is an external crate.  A proof is    *)
(* the pair of the key and the input it was produced for.                  *)
(***************************************************************************)
ecvrf_prove(pk, alpha) == <<"pi", pk, alpha>>

ecvrf_verify(pk, alpha, proof) == proof = ecvrf_prove(pk, alpha)

(***************************************************************************)
(* processor.rs: fulfill_randomness                                        *)
(***************************************************************************)
\* the status check of line 637
request_is_pending(request) == request.status = "Pending"

\* the placeholder of processor.rs line 691
vrf_proof_valid(public_key, seed, proof) == TRUE

\* word i = keccak(request_id || i_le) written twice
RandomWord(request_id, i) ==
  <<Keccak(<<request_id, i>>), Keccak(<<request_id, i>>)>>

DeriveRandomness(request_id, num_words) ==
  [i \in 1..num_words |-> RandomWord(request_id, i - 1)]

\* the match on the result of invoke, lines 821-835: both arms log the
\* outcome and go on
callback_outcome(invoke_ok) == "Ok"

\* the "Update subscription data" block, lines 775-799.  The record is
\* written over the old one: when a key has been removed the buffer keeps
\* its size and the last 16 bytes of the old record stay behind the new one.
ReleaseSubscriptionSlot(sub, request_id) ==
  [sub EXCEPT !.active_requests = SatSub(@, 1),
              !.request_keys = RemoveKey(@, Truncate16(request_id))]

\* vrf_result_account is "derived" when the caller passes the address derived
\* from request_id.  callback_ok is the outcome of the consumer's callback.
process_fulfill_randomness(w, now, is_signer, oracle, request_account, vrf_result_account, pool_acct, sub_acct, proof, public_key, request_id, pool_id, request_index, callback_ok) ==
  IF ~is_signer THEN Ret(w, "MissingRequiredSignature", <<>>)
  ELSE IF request_account \notin DOMAIN w.reqs
  THEN Ret(w, "InvalidAccountData", <<>>)
  ELSE IF try_from_slice(w.reqs[request_account].data_len, RequestLen(w.reqs[request_account])) # "Ok"
  THEN Ret(w, try_from_slice(w.reqs[request_account].data_len, RequestLen(w.reqs[request_account])), <<>>)
  ELSE IF w.reqs[request_account].request_id # request_id
  THEN Ret(w, "RequestIdMismatch", <<>>)
  ELSE IF w.reqs[request_account].pool_id # pool_id
          \/ w.reqs[request_account].request_index # request_index
  THEN Ret(w, "InvalidRequestParameters", <<>>)
  ELSE IF ~request_is_pending(w.reqs[request_account])
  THEN Ret(w, "InvalidRequestStatus", <<>>)
  ELSE IF pool_acct \notin DOMAIN w.pools
  THEN Ret(w, "RequestPoolNotInitialized", <<>>)
  ELSE IF try_from_slice(w.pools[pool_acct].data_len, PoolLen(w.pools[pool_acct])) # "Ok"
  THEN Ret(w, try_from_slice(w.pools[pool_acct].data_len, PoolLen(w.pools[pool_acct])), <<>>)
  ELSE IF w.pools[pool_acct].subscription # sub_acct
          \/ w.pools[pool_acct].pool_id # pool_id
  THEN Ret(w, "InvalidAccountData", <<>>)
  ELSE IF request_index \notin DOMAIN w.pools[pool_acct].requests
  THEN Ret(w, "RequestNotFound", <<>>)
  ELSE IF is_request_expired(w.pools[pool_acct].requests[request_index].request_slot, now)
  THEN Ret([w EXCEPT !.reqs[request_account].status = "Expired",
                     !.pools[pool_acct].requests[request_index].status = "Expired"],
           "RequestExpired",
           <<[type |-> "RequestExpired", request_id |-> request_id,
              subscription |-> sub_acct, pool_id |-> pool_id,
              request_index |-> request_index]>>)
  ELSE IF ~vrf_proof_valid(public_key, w.reqs[request_account].seed, proof)
  THEN Ret(w, "InvalidVrfProof", <<>>)
  ELSE IF vrf_result_account # "derived" THEN Ret(w, "InvalidArgument", <<>>)
  ELSE IF request_id \in DOMAIN w.res THEN Ret(w, "AccountAlreadyInUse", <<>>)
  ELSE
    LET vrf_result ==
          [randomness |-> DeriveRandomness(request_id,
                                           w.reqs[request_account].num_words),
           proof |-> proof, proof_slot |-> now, request_id |-> request_id]
        w1 == [w EXCEPT
                 !.res = @ @@ (request_id :> vrf_result),
                 !.reqs[request_account].status = "Fulfilled",
                 !.pools[pool_acct].requests[request_index].status = "Fulfilled"]
    IN IF sub_acct \notin DOMAIN w.subs THEN Ret(w1, "InvalidAccountData", <<>>)
       ELSE IF try_from_slice(w.subs[sub_acct].data_len, SubscriptionLen(w.subs[sub_acct])) # "Ok"
       THEN Ret(w1, try_from_slice(w.subs[sub_acct].data_len, SubscriptionLen(w.subs[sub_acct])), <<>>)
       ELSE IF w.reqs[request_account].callback_data # <<>>
               /\ callback_outcome(callback_ok) # "Ok"
       THEN Ret([w1 EXCEPT !.subs[sub_acct] = ReleaseSubscriptionSlot(@, request_id)],
                callback_outcome(callback_ok), <<>>)
       ELSE Ret([w1 EXCEPT !.subs[sub_acct] = ReleaseSubscriptionSlot(@, request_id)],
                "Ok",
                <<[type |-> "RandomnessFulfilled", request_id |-> request_id,
                   requester |-> w.reqs[request_account].requester,
                   randomness |-> vrf_result.randomness[1],
                   oracle |-> oracle]>>)

(***************************************************************************)
(* processor.rs: cancel_request.  The file defines the handler twice, at   *)
(* line 848 and at line 1589; the second is the one with the arguments of  *)
(* the CancelRequest instruction and is the one modelled.                  *)
(***************************************************************************)
process_cancel_request(w, is_signer, owner, request_account, pool_acct, sub_acct, request_id, pool_id, request_index) ==
  IF ~is_signer THEN Ret(w, "MissingRequiredSignature", <<>>)
  ELSE IF request_account \notin DOMAIN w.reqs
  THEN Ret(w, "InvalidAccountData", <<>>)
  ELSE IF try_from_slice(w.reqs[request_account].data_len, RequestLen(w.reqs[request_account])) # "Ok"
  THEN Ret(w, try_from_slice(w.reqs[request_account].data_len, RequestLen(w.reqs[request_account])), <<>>)
  ELSE IF w.reqs[request_account].request_id # request_id
          \/ w.reqs[request_account].pool_id # pool_id
          \/ w.reqs[request_account].request_index # request_index
  THEN Ret(w, "InvalidRequestParameters", <<>>)
  ELSE IF w.reqs[request_account].status # "Pending"
  THEN Ret(w, "InvalidRequestStatus", <<>>)
  ELSE IF sub_acct \notin DOMAIN w.subs THEN Ret(w, "InvalidAccountData", <<>>)
  ELSE IF try_from_slice(w.subs[sub_acct].data_len, SubscriptionLen(w.subs[sub_acct])) # "Ok"
  THEN Ret(w, try_from_slice(w.subs[sub_acct].data_len, SubscriptionLen(w.subs[sub_acct])), <<>>)
  ELSE IF w.subs[sub_acct].owner # owner
  THEN Ret(w, "InvalidSubscriptionOwner", <<>>)
  ELSE IF pool_acct \notin DOMAIN w.pools
  THEN Ret(w, "RequestPoolNotInitialized", <<>>)
  ELSE IF try_from_slice(w.pools[pool_acct].data_len, PoolLen(w.pools[pool_acct])) # "Ok"
  THEN Ret(w, try_from_slice(w.pools[pool_acct].data_len, PoolLen(w.pools[pool_acct])), <<>>)
  ELSE
    LET w1 == [w EXCEPT !.reqs[request_account].status = "Cancelled"]
    IN IF request_index \notin DOMAIN w.pools[pool_acct].requests
       THEN Ret(w1, "RequestNotFound", <<>>)
       ELSE Ret([w1 EXCEPT
                   !.pools[pool_acct].requests[request_index].status = "Cancelled",
                   !.subs[sub_acct] =
                      [@ EXCEPT
                         !.active_requests = SatSub(@, 1),
                         !.balance = AddWide(@, w.subs[sub_acct].min_balance),
                         !.request_keys = RemoveKey(@, Truncate16(request_id))]],
                "Ok",
                <<[type |-> "RequestCancelled", request_id |-> request_id,
                   subscription |-> sub_acct, pool_id |-> pool_id,
                   request_index |-> request_index]>>)

(***************************************************************************)
(* processor.rs: clean_expired_requests                                    *)
(***************************************************************************)
process_clean_expired_requests(w, now, is_signer, pool_acct, sub_acct, pool_id) ==
  IF ~is_signer THEN Ret(w, "MissingRequiredSignature", <<>>)
  ELSE IF pool_acct \notin DOMAIN w.pools
  THEN Ret(w, "RequestPoolNotInitialized", <<>>)
  ELSE IF try_from_slice(w.pools[pool_acct].data_len, PoolLen(w.pools[pool_acct])) # "Ok"
  THEN Ret(w, try_from_slice(w.pools[pool_acct].data_len, PoolLen(w.pools[pool_acct])), <<>>)
  ELSE IF w.pools[pool_acct].pool_id # pool_id THEN Ret(w, "InvalidPoolId", <<>>)
  ELSE IF w.pools[pool_acct].subscription # sub_acct
  THEN Ret(w, "InvalidAccountData", <<>>)
  ELSE
    LET cleaned == clean_expired_requests(w.pools[pool_acct], now)
        expired_count == cleaned.count
    IN IF expired_count > 0
       THEN IF sub_acct \notin DOMAIN w.subs
            THEN Ret(w, "InvalidAccountData", <<>>)
            ELSE IF try_from_slice(w.subs[sub_acct].data_len, SubscriptionLen(w.subs[sub_acct])) # "Ok"
            THEN Ret(w, try_from_slice(w.subs[sub_acct].data_len, SubscriptionLen(w.subs[sub_acct])), <<>>)
            ELSE Ret([w EXCEPT
                        !.subs[sub_acct].active_requests =
                           SatSub(@, expired_count % (U16_MAX + 1)),
                        !.pools[pool_acct] = cleaned.pool],
                     "Ok",
                     <<[type |-> "RequestPoolCleaned", subscription |-> sub_acct,
                        pool_id |-> pool_id, expired_count |-> expired_count]>>)
       ELSE Ret(w, "Ok", <<>>)

(***************************************************************************)
(* processor.rs: oracle registry (the definitions at lines 1035-1428; the  *)
(* earlier process_register_oracle and process_deactivate_oracle of lines  *)
(* 897-960 take other arguments than the instructions carry).  The         *)
(* registry account and the oracle accounts are program derived: an oracle *)
(* account is named by its authority.  The registry account is created     *)
(* with 1024 bytes more than its record.                                   *)
(***************************************************************************)
process_initialize_oracle_registry(w, now, is_signer, admin, registry_ok, min_stake, rotation_frequency) ==
  IF ~is_signer THEN Ret(w, "MissingRequiredSignature", <<>>)
  ELSE IF ~registry_ok THEN Ret(w, "InvalidArgument", <<>>)
  ELSE IF rotation_frequency = 0 THEN Ret(w, "InvalidRequestParameters", <<>>)
  ELSE IF w.reg.initialized THEN Ret(w, "AccountAlreadyInUse", <<>>)
  ELSE Ret([w EXCEPT !.reg =
              [initialized |-> TRUE, admin |-> admin, oracle_count |-> 0, min_stake |-> min_stake,
               rotation_frequency |-> rotation_frequency,
               last_rotation |-> now, oracles |-> <<>>,
               data_len |-> 8 + 32 + 2 + 8 + 8 + 8 + 4 + 1024]],
           "Ok",
           <<[type |-> "OracleRegistryInitialized", admin |-> admin,
              min_stake |-> min_stake,
              rotation_frequency |-> rotation_frequency]>>)

\* registry.oracles.contains(authority.key)
already_registered(reg, authority) == Contains(reg.oracles, authority)

\* The registry is the account the caller passes, read as the other oracle
\* instructions read it.  The oracle account is created and written before
\* the registry is; a registry record that has outgrown its buffer leaves
\* the oracle account behind and the registry holding the part of the
\* record that fits.
process_register_oracle(w, now, is_signer, authority, oracle_account, registry_account, vrf_key, stake_amount) ==
  IF ~is_signer THEN Ret(w, "MissingRequiredSignature", <<>>)
  ELSE IF ~registry_account_data(w, registry_account).initialized
  THEN Ret(w, "RegistryNotInitialized", <<>>)
  ELSE
    LET reg == registry_account_data(w, registry_account)
    IN IF try_from_slice(reg.data_len, RegistryLen(reg)) # "Ok"
       THEN Ret(w, try_from_slice(reg.data_len, RegistryLen(reg)), <<>>)
       ELSE IF stake_amount < reg.min_stake THEN Ret(w, "InsufficientStake", <<>>)
       ELSE IF oracle_account # authority THEN Ret(w, "InvalidArgument", <<>>)
       ELSE IF already_registered(reg, authority)
       THEN Ret(w, "OracleAlreadyRegistered", <<>>)
       ELSE IF oracle_account \in DOMAIN w.orc
       THEN Ret(w, "AccountAlreadyInUse", <<>>)
       ELSE
         LET grown == [reg EXCEPT !.oracles = Append(@, authority),
                                  !.oracle_count = SatAdd(@, 1, U16_MAX)]
             w1 == write_registry(
                     [w EXCEPT
                        !.orc = @ @@ (oracle_account :>
                           [authority |-> authority, vrf_key |-> vrf_key,
                            stake_amount |-> stake_amount, reputation |-> 0,
                            last_active |-> now, is_active |-> TRUE,
                            fulfillment_count |-> 0, failure_count |-> 0,
                            data_len |-> 8 + 32 + 32 + 8 + 2 + 8 + 1 + 8 + 8])],
                     registry_account, grown)
         IN IF serialize(reg.data_len, RegistryLen(grown)) # "Ok"
            THEN Ret(w1, serialize(reg.data_len, RegistryLen(grown)), <<>>)
            ELSE Ret(w1,
                     "Ok",
                     <<[type |-> "OracleRegistered", authority |-> authority,
                        oracle_account |-> oracle_account,
                        stake_amount |-> stake_amount]>>)

\* *signer.key != oracle.authority && *signer.key != registry.admin is refused
signer_may_deactivate(signer, authority, admin) == signer = authority \/ signer = admin

process_deactivate_oracle(w, is_signer, signer, oracle_account, registry_account) ==
  IF ~is_signer THEN Ret(w, "MissingRequiredSignature", <<>>)
  ELSE IF ~is_oracle_account(w, oracle_account)
  THEN Ret(w, "InvalidAccountData", <<>>)
  ELSE IF try_from_slice(oracle_account_data(w, oracle_account).data_len, OracleLen) # "Ok"
  THEN Ret(w, try_from_slice(oracle_account_data(w, oracle_account).data_len, OracleLen), <<>>)
  ELSE IF ~registry_account_data(w, registry_account).initialized
  THEN Ret(w, "RegistryNotInitialized", <<>>)
  ELSE
    LET oracle == oracle_account_data(w, oracle_account)
        reg == registry_account_data(w, registry_account)
    IN IF try_from_slice(reg.data_len, RegistryLen(reg)) # "Ok"
       THEN Ret(w, try_from_slice(reg.data_len, RegistryLen(reg)), <<>>)
       ELSE IF ~signer_may_deactivate(signer, oracle.authority, reg.admin)
       THEN Ret(w, "InvalidOracleAuthority", <<>>)
       ELSE
         LET w1 == write_oracle(w, oracle_account, [oracle EXCEPT !.is_active = FALSE])
         IN Ret(IF Contains(reg.oracles, oracle.authority)
                THEN write_registry(
                       w1, registry_account,
                       [reg EXCEPT !.oracles = RemoveKey(@, oracle.authority),
                                   !.oracle_count = SatSub(@, 1)])
                ELSE w1,
                "Ok",
                <<[type |-> "OracleDeactivated", authority |-> oracle.authority,
                   oracle_account |-> oracle_account]>>)

(***************************************************************************)
(* processor.rs: process_request_batch                                     *)
(* b.groups are the groups of four accounts (request, result, subscription,*)
(* callback program) that follow the four fixed accounts; b.tail is the    *)
(* number of accounts left over after the last complete group.             *)
(***************************************************************************)
RECURSIVE BatchLoop(_, _, _, _, _, _, _, _)
BatchLoop(w, now, oracle, pool_acct, pool_id, b, i, acc) ==
  IF i > Len(b.request_ids)
  THEN Ret(w, "Ok", Append(acc.ev, [type |-> "BatchProcessed", oracle |-> oracle,
                                    pool_id |-> pool_id, count |-> acc.count]))
  ELSE
    LET remaining == 4 * Len(b.groups) + b.tail - 4 * (i - 1)
    IN IF remaining < 2
       THEN BatchLoop(w, now, oracle, pool_acct, pool_id, b, i + 1, acc)
       ELSE IF remaining < 4
       THEN Ret(w, "NotEnoughAccountKeys", acc.ev)
       ELSE
         LET g == b.groups[i]
             r == process_fulfill_randomness(
                    w, now, TRUE, oracle, g.request_account,
                    g.vrf_result_account, pool_acct, g.sub_acct,
                    b.proofs[i], b.public_keys[i], b.request_ids[i], pool_id,
                    b.request_indices[i], g.callback_ok)
         IN BatchLoop(r.w, now, oracle, pool_acct, pool_id, b, i + 1,
                      [count |-> IF r.err = "Ok" THEN acc.count + 1 ELSE acc.count,
                       ev |-> acc.ev \o r.ev])

process_request_batch(w, now, is_signer, oracle, oracle_config, pool_acct, b, pool_id) ==
  IF Len(b.request_ids) # Len(b.proofs)
     \/ Len(b.request_ids) # Len(b.public_keys)
     \/ Len(b.request_ids) # Len(b.request_indices)
  THEN Ret(w, "InvalidBatchParameters", <<>>)
  ELSE IF Len(b.request_ids) = 0 THEN Ret(w, "NoRequestsToProcess", <<>>)
  ELSE IF ~is_signer THEN Ret(w, "MissingRequiredSignature", <<>>)
  ELSE IF ~is_oracle_account(w, oracle_config) THEN Ret(w, "InvalidAccountData", <<>>)
  ELSE IF try_from_slice(oracle_account_data(w, oracle_config).data_len, OracleLen) # "Ok"
  THEN Ret(w, try_from_slice(oracle_account_data(w, oracle_config).data_len, OracleLen), <<>>)
  ELSE IF oracle_account_data(w, oracle_config).authority # oracle
  THEN Ret(w, "InvalidOracleAuthority", <<>>)
  ELSE IF ~oracle_account_data(w, oracle_config).is_active THEN Ret(w, "InvalidOracle", <<>>)
  ELSE BatchLoop(w, now, oracle, pool_acct, pool_id, b, 1,
                 [count |-> 0, ev |-> <<>>])

(***************************************************************************)
(* Inputs.  Each action draws its arguments from the accounts that exist   *)
(* plus one that does not, and from the values on both sides of every      *)
(* check of its handler.                                                   *)
(***************************************************************************)
FundAmounts == {2000000}
ConfirmationInputs == {0, 1}
MaxRequestsInputs == {0, 101}
NumWordsInputs == {0, 1, 101}
GasInputs == {9999, 10000, 1000001}
PoolAccts == {PoolAddress(s, p) : s \in SubAccts, p \in PoolIds}
\* a proof made for another input
BadProof == ecvrf_prove("pk1", 0)
BadRequestId == Keccak(<<"unknown">>)
\* addresses that hold no account
NoPoolAccount == PoolAddress(NoAccount, 0)
NoRequestAccount == Keccak(<<"missing">>)

\* The program runs under a host that executes every instruction as a
\* transaction (BanksClient::process_transaction in the tests of the
\* repository): the accounts keep what the handler wrote when it returns Ok,
\* and stay as they were before the call when it returns an error.
\* A handler that has written into an account of another program fails the
\* transaction whatever it returns (ExternalAccountDataModified).
transaction_result(w, r) ==
  IF r.err = "Ok" /\ r.w.ext # w.ext THEN "ExternalAccountDataModified" ELSE r.err

process_transaction(w, r) == IF transaction_result(w, r) = "Ok" THEN r.w ELSE w

Commit(r) ==
  /\ subscriptions' = process_transaction(World, r).subs
  /\ pools' = process_transaction(World, r).pools
  /\ requests' = process_transaction(World, r).reqs
  /\ results' = process_transaction(World, r).res
  /\ registry' = process_transaction(World, r).reg
  /\ oracles' = process_transaction(World, r).orc
  /\ UNCHANGED <<slot, ticks, anchor, testprog, lz, codec, legacy>>

\* The host advances the Clock sysvar between transactions.  No handler reads
\* a slot except to stamp a record and to take the age of a request or of a
\* rotation, so time advances by the expiry window and after that slot by
\* slot.
Tick ==
  /\ ticks < MaxTicks
  /\ slot' = IF slot < REQUEST_EXPIRY_SLOTS THEN slot + REQUEST_EXPIRY_SLOTS
             ELSE slot + 1
  /\ ticks' = ticks + 1
  /\ UNCHANGED <<subscriptions, pools, requests, results, registry, oracles,
                 anchor, testprog, lz, codec, legacy>>

\* A subscription account is a fresh keypair account: creating it takes the
\* signature of the account's key, which its holder has.
KeyHolder(acct) == IF acct = "s1" THEN "alice" ELSE "bob"

\* the second subscription admits one request at a time, so that its limit
\* is met while it still holds a balance
SubMaxRequests(acct) == IF acct = "s1" THEN 2 ELSE 1

CreateBase(acct) ==
  [is_signer |-> TRUE, acct |-> acct, min_balance |-> 1000000,
   confirmations |-> 1, max_requests |-> SubMaxRequests(acct)]

CreateInputs ==
  UNION {{CreateBase(acct), [CreateBase(acct) EXCEPT !.is_signer = FALSE],
          [CreateBase(acct) EXCEPT !.min_balance = 0]}
         \cup {[CreateBase(acct) EXCEPT !.confirmations = c] : c \in ConfirmationInputs}
         \cup {[CreateBase(acct) EXCEPT !.max_requests = m] : m \in MaxRequestsInputs}
           : acct \in SubAccts}

CreateCall(w, a) ==
  process_create_enhanced_subscription(
    w, a.is_signer, KeyHolder(a.acct), a.acct, a.min_balance, a.confirmations,
    a.max_requests)

CreateSubscription ==
  \E a \in CreateInputs :
    LET r == CreateCall(World, a)
    IN Commit(r)

FundInputs ==
  {[is_signer |-> sg, funder |-> "alice", acct |-> acct, amount |-> amount] :
     sg \in BOOLEAN, acct \in SubAccts, amount \in FundAmounts}

FundCall(w, a) == process_fund_subscription(w, a.is_signer, a.funder, a.acct, a.amount)

FundSubscription == \E a \in FundInputs : Commit(FundCall(World, a))

\* the arguments of initialize_request_pool: either user on either
\* subscription with the pool account derived for it, and each argument off
PoolSize(sub_acct) == IF sub_acct = "s1" THEN 2 ELSE 1

PoolBase ==
  [is_signer |-> TRUE, owner |-> "alice", sub_acct |-> "s1",
   pool_acct |-> PoolAddress("s1", 1), pool_id |-> 1, max_size |-> PoolSize("s1")]

PoolInputs ==
  {[PoolBase EXCEPT !.owner = o, !.sub_acct = s,
                    !.pool_acct = PoolAddress(s, 1), !.max_size = PoolSize(s)] :
     o \in Users, s \in SubAccts}
  \cup {[PoolBase EXCEPT !.is_signer = FALSE],
        [PoolBase EXCEPT !.pool_acct = PoolAddress("s2", 1)],
        [PoolBase EXCEPT !.pool_id = 2]}

PoolCall(w, now, a) ==
  process_initialize_request_pool(w, now, a.is_signer, a.owner, a.sub_acct,
                                  a.pool_acct, a.pool_id, a.max_size)

\* the inputs above and a pool of no capacity
InitializeRequestPool ==
  \E a \in PoolInputs \cup {[PoolBase EXCEPT !.max_size = 0]} :
    Commit(PoolCall(World, slot, a))

\* the arguments of request_randomness: every combination of subscription
\* and pool accounts with valid parameters, and each argument off in turn
RequestBase ==
  [is_signer |-> TRUE, requester |-> "alice", request_account |-> "derived",
   sub_acct |-> "s1", pool_acct |-> PoolAddress("s1", 1), pool_id |-> 1,
   seed |-> 7, callback_data |-> <<1>>, num_words |-> 1,
   minimum_confirmations |-> 1, callback_gas_limit |-> 10000]

RequestInputs ==
  {[RequestBase EXCEPT !.sub_acct = s, !.pool_acct = p,
                       !.callback_data = IF s = "s1" THEN <<1>> ELSE <<>>] :
     s \in SubAccts, p \in PoolAccts}
  \cup {[RequestBase EXCEPT !.is_signer = FALSE],
        [RequestBase EXCEPT !.request_account = "other"],
        [RequestBase EXCEPT !.pool_id = 2],
        [RequestBase EXCEPT !.pool_acct = NoPoolAccount]}
  \cup {[RequestBase EXCEPT !.num_words = n] : n \in NumWordsInputs}
  \cup {[RequestBase EXCEPT !.minimum_confirmations = c] : c \in ConfirmationInputs}
  \cup {[RequestBase EXCEPT !.callback_gas_limit = g] : g \in GasInputs}

RequestCall(w, now, a) ==
  process_request_randomness(
    w, now, a.is_signer, a.requester, a.request_account, a.sub_acct,
    a.pool_acct, a.seed, a.callback_data, a.num_words, a.minimum_confirmations,
    a.callback_gas_limit, a.pool_id)

RequestRandomness == \E a \in RequestInputs : Commit(RequestCall(World, slot, a))

\* the request accounts a call can name: those that exist and an address
\* that holds none
RequestAccts(w) == DOMAIN w.reqs \cup {NoRequestAccount}

\* what a caller takes a request account to hold: its record, and for an
\* address without an account the first request of the first subscription
Presumed(w, ra) ==
  IF ra \in DOMAIN w.reqs THEN w.reqs[ra]
  ELSE [subscription |-> "s1", seed |-> 7, pool_id |-> 1, request_index |-> 0,
        request_id |-> ra]

\* the arguments of fulfill_randomness and cancel_request: a request account
\* with its own id, pool id and index, every combination of the pool and
\* subscription accounts that exist, and each argument off in turn
CallArgs(w, ra) ==
  [signer |-> "o1", is_signer |-> TRUE, request_account |-> ra,
   vrf_result_account |-> "derived",
   pool_acct |-> PoolAddress(Presumed(w, ra).subscription, Presumed(w, ra).pool_id),
   sub_acct |-> Presumed(w, ra).subscription,
   proof |-> ecvrf_prove("pk1", Presumed(w, ra).seed), public_key |-> "pk1",
   request_id |-> Presumed(w, ra).request_id, pool_id |-> Presumed(w, ra).pool_id,
   request_index |-> Presumed(w, ra).request_index, callback_ok |-> TRUE]

CallDeviations(c) ==
  {[c EXCEPT !.is_signer = FALSE],
   [c EXCEPT !.request_account = NoRequestAccount],
   [c EXCEPT !.vrf_result_account = "other"],
   [c EXCEPT !.pool_acct = NoPoolAccount],
   [c EXCEPT !.sub_acct = NoAccount],
   [c EXCEPT !.request_id = BadRequestId],
   [c EXCEPT !.pool_id = 2],
   [c EXCEPT !.request_index = @ + 1]}

FulfillInputs(w) ==
  UNION {
    {[CallArgs(w, ra) EXCEPT !.pool_acct = p, !.sub_acct = s] :
       p \in DOMAIN w.pools, s \in DOMAIN w.subs}
    \cup CallDeviations(CallArgs(w, ra))
    \cup {[CallArgs(w, ra) EXCEPT !.signer = "o2"],
          [CallArgs(w, ra) EXCEPT !.proof = BadProof],
          [CallArgs(w, ra) EXCEPT !.callback_ok = FALSE]} : ra \in RequestAccts(w)}

FulfillCall(w, now, a) ==
  process_fulfill_randomness(
    w, now, a.is_signer, a.signer, a.request_account, a.vrf_result_account,
    a.pool_acct, a.sub_acct, a.proof, a.public_key, a.request_id, a.pool_id,
    a.request_index, a.callback_ok)

FulfillRandomness == \E a \in FulfillInputs(World) : Commit(FulfillCall(World, slot, a))

CancelInputs(w) ==
  UNION {
    {[CallArgs(w, ra) EXCEPT !.signer = o, !.pool_acct = p, !.sub_acct = s] :
       o \in Users, p \in DOMAIN w.pools, s \in DOMAIN w.subs}
    \cup CallDeviations([CallArgs(w, ra) EXCEPT
                           !.signer = KeyHolder(Presumed(w, ra).subscription)])
      : ra \in RequestAccts(w)}

CancelCall(w, a) ==
  process_cancel_request(w, a.is_signer, a.signer, a.request_account,
                         a.pool_acct, a.sub_acct, a.request_id, a.pool_id,
                         a.request_index)

CancelRequest == \E a \in CancelInputs(World) : Commit(CancelCall(World, a))

CleanInputs(w) ==
  {[is_signer |-> TRUE, pool_acct |-> p, sub_acct |-> s, pool_id |-> 1] :
     p \in DOMAIN w.pools \cup {NoPoolAccount}, s \in DOMAIN w.subs \cup {NoAccount}}
  \cup UNION {{[is_signer |-> FALSE, pool_acct |-> p,
                sub_acct |-> w.pools[p].subscription, pool_id |-> 1],
               [is_signer |-> TRUE, pool_acct |-> p,
                sub_acct |-> w.pools[p].subscription, pool_id |-> 2],
               [is_signer |-> TRUE, pool_acct |-> NoPoolAccount,
                sub_acct |-> w.pools[p].subscription, pool_id |-> 1]}
                 : p \in DOMAIN w.pools}

CleanCall(w, now, a) ==
  process_clean_expired_requests(w, now, a.is_signer, a.pool_acct, a.sub_acct,
                                 a.pool_id)

CleanExpiredRequests == \E a \in CleanInputs(World) : Commit(CleanCall(World, slot, a))

\* a batch: the items, and the shape of the argument vectors and of the
\* account list ("full": one account group per item)
BatchItems(w) == {CallArgs(w, ra) : ra \in RequestAccts(w)}

BatchShapes == {"full", "one_group_short", "half_group", "proof_missing"}

MakeBatch(items, sub_acct, shape) ==
  LET n == Len(items)
      ngroups == IF shape = "full" \/ shape = "proof_missing" THEN n ELSE n - 1
  IN [request_ids |-> [i \in 1..n |-> items[i].request_id],
      request_indices |-> [i \in 1..n |-> items[i].request_index],
      public_keys |-> [i \in 1..n |-> items[i].public_key],
      proofs |-> [i \in 1..(IF shape = "proof_missing" THEN n - 1 ELSE n) |->
                    items[i].proof],
      groups |-> [i \in 1..ngroups |->
                    [request_account |-> items[i].request_account,
                     vrf_result_account |-> "derived",
                     sub_acct |-> sub_acct, callback_ok |-> TRUE]],
      tail |-> IF shape = "half_group" THEN 2 ELSE 0]

BatchBase(w, items) ==
  [is_signer |-> TRUE, oracle |-> "o1", oracle_config |-> "o1",
   pool_acct |-> PoolAddress(items[1].sub_acct, 1),
   sub_acct |-> items[1].sub_acct, pool_id |-> 1, shape |-> "full",
   items |-> items]

BatchInputs(w) ==
  UNION {
    UNION {
      {[BatchBase(w, items) EXCEPT !.pool_acct = p, !.sub_acct = s] :
         p \in DOMAIN w.pools, s \in DOMAIN w.subs}
      \cup {[BatchBase(w, items) EXCEPT !.shape = sh] : sh \in BatchShapes}
      \cup {[BatchBase(w, items) EXCEPT !.oracle_config = "forged_oracle", !.shape = sh] :
              sh \in BatchShapes}
      \cup {[BatchBase(w, items) EXCEPT !.is_signer = FALSE],
            [BatchBase(w, items) EXCEPT !.oracle = "o2", !.oracle_config = "o2"],
            [BatchBase(w, items) EXCEPT !.oracle_config = "o2"],
            [BatchBase(w, items) EXCEPT !.oracle_config = NoAccount],
            [BatchBase(w, items) EXCEPT !.oracle = "o2", !.oracle_config = "forged_oracle"],
            [BatchBase(w, items) EXCEPT !.pool_id = 2],
            [BatchBase(w, items) EXCEPT !.items = <<>>],
            [BatchBase(w, items) EXCEPT !.oracle_config = "forged_oracle", !.items = <<>>]}
        : items \in [1..n -> BatchItems(w)]} : n \in 1..MaxBatch}

BatchCall(w, now, a) ==
  process_request_batch(w, now, a.is_signer, a.oracle, a.oracle_config,
                        a.pool_acct, MakeBatch(a.items, a.sub_acct, a.shape),
                        a.pool_id)

ProcessRequestBatch == \E a \in BatchInputs(World) : Commit(BatchCall(World, slot, a))

(***************************************************************************)
(* The anchor programs of the repository.  Two more deployments of the     *)
(* coordinator exist beside kamui-program/src: the anchor program          *)
(* kamui-program/programs/kamui-vrf and the program of test-kamui.  Both   *)
(* keep their accounts in the layout of the anchor state.rs, whose copy in *)
(* the repository is test-kamui-vrf/programs/kamui-vrf/state.rs: a pool    *)
(* holds a vector of entries [index, data].  Each program has its own      *)
(* accounts:                                                               *)
(*     [subs, pools, reqs, res]                                            *)
(* Before the handler runs the framework loads the accounts of the         *)
(* instruction in the order of its account struct (a signer must have      *)
(* signed, an account that is not created by `init` must exist), then      *)
(* creates the `init` accounts at their derived addresses, then checks the *)
(* constraints of the other accounts, the seeds of an account before its   *)
(* `constraint` expressions.  It writes the account structs back only when *)
(* the handler returns Ok, so a call that fails leaves the accounts as     *)
(* they were.                                                              *)
(***************************************************************************)
\* reg is the oracle registry account of the program, orc its oracle accounts
NoAccounts == [subs |-> <<>>, pools |-> <<>>, reqs |-> <<>>, res |-> <<>>, reg |-> NoRegistry, orc |-> <<>>]

\* An account that `init` created and no handler wrote holds zero bytes:
\* Pubkey::default() in its keys, [0u8; 32] in its request id.
DefaultRandomnessRequest ==
  [subscription |-> "default", seed |-> 0, requester |-> "default",
   callback_data |-> <<>>, request_slot |-> 0, status |-> "Pending",
   num_words |-> 0, callback_gas_limit |-> 0, pool_id |-> 0,
   request_index |-> 0, request_id |-> <<"zero32">>]

DefaultVrfResult ==
  [randomness |-> <<>>, proof |-> <<>>, proof_slot |-> 0, request_id |-> <<"zero32">>]

\* state.rs (anchor): RequestPool
anchor_generate_request_id(seed, requester, subscription, pool_id, request_index, now) ==
  Keccak(<<seed, requester, subscription, now, now, pool_id, request_index>>)

anchor_next_request_index(pool) ==
  IF Len(pool.request_entries) = 0 THEN 0
  ELSE MaxOf({pool.request_entries[i].index : i \in 1..Len(pool.request_entries)}) + 1

\* the position of the first entry with this index, 0 when there is none
anchor_find_request(pool, index) ==
  IF \E i \in 1..Len(pool.request_entries) : pool.request_entries[i].index = index
  THEN CHOOSE i \in 1..Len(pool.request_entries) :
         /\ pool.request_entries[i].index = index
         /\ \A j \in 1..(i - 1) : pool.request_entries[j].index # index
  ELSE 0

anchor_add_request(pool, index, summary) ==
  [pool EXCEPT !.request_entries = Append(@, [index |-> index, data |-> summary])]

\* space = 8 + INIT_SPACE: the room for a record with each vector at its
\* max_len (16 request keys and 16 pool ids; 64 request entries)
EnhancedSubscription_INIT_SPACE == 32 + 8 + 8 + 1 + 2 + 2 + 8 + (4 + 16 * 16) + (4 + 16)

RequestPool_INIT_SPACE == 32 + 1 + 4 + 4 + (4 + 64 * (4 + RequestSummaryLen)) + 8

\* On exit the framework serialises every `mut` account into its buffer and
\* fails with AccountDidNotSerialize when the record has outgrown it.
anchor_exit_fits(sub, pool) ==
  /\ SubscriptionLen(sub) <= EnhancedSubscription_INIT_SPACE
  /\ 32 + 1 + 4 + 4 + (4 + (4 + RequestSummaryLen) * Len(pool.request_entries)) + 8
       <= RequestPool_INIT_SPACE

\* the fresh keypair account a requester creates for the next request
FreshRequestAccount(w) == <<"request", Cardinality(DOMAIN w.reqs)>>

(***************************************************************************)
(* test-kamui-vrf/programs/kamui-vrf/src/lib.rs: the program of test-kamui *)
(* (the module that is compiled, lines 329-516).                           *)
(***************************************************************************)
test_kamui_vrf_create_enhanced_subscription(w, is_signer, owner, sub_acct, min_balance, confirmations, max_requests) ==
  IF ~is_signer THEN Ret(w, "AccountNotSigner", <<>>)
  ELSE IF sub_acct \in DOMAIN w.subs THEN Ret(w, "AccountAlreadyInUse", <<>>)
  ELSE IF confirmations < MINIMUM_REQUEST_CONFIRMATIONS
          \/ confirmations > MAXIMUM_REQUEST_CONFIRMATIONS
  THEN Ret(w, "InvalidConfirmations", <<>>)
  ELSE IF max_requests = 0 \/ max_requests > MAX_REQUESTS_PER_SUBSCRIPTION
  THEN Ret(w, "InvalidMaxRequests", <<>>)
  ELSE Ret([w EXCEPT !.subs = @ @@ (sub_acct :>
              [owner |-> owner, balance |-> 0, min_balance |-> min_balance,
               confirmations |-> confirmations, active_requests |-> 0,
               max_requests |-> max_requests, request_counter |-> 0,
               request_keys |-> <<>>, pool_ids |-> <<>>])],
           "Ok", <<>>)

test_kamui_vrf_fund_subscription(w, is_signer, sub_acct, amount) ==
  IF ~is_signer THEN Ret(w, "AccountNotSigner", <<>>)
  ELSE IF sub_acct \notin DOMAIN w.subs THEN Ret(w, "AccountNotInitialized", <<>>)
  ELSE IF amount = 0 THEN Ret(w, "InvalidAmount", <<>>)
  ELSE Ret([w EXCEPT !.subs[sub_acct].balance = AddWide(@, amount)], "Ok", <<>>)

test_kamui_vrf_initialize_request_pool(w, now, is_signer, owner, sub_acct, pool_acct, pool_id, max_size) ==
  IF ~is_signer THEN Ret(w, "AccountNotSigner", <<>>)
  ELSE IF sub_acct \notin DOMAIN w.subs THEN Ret(w, "AccountNotInitialized", <<>>)
  ELSE IF pool_acct # PoolAddress(sub_acct, pool_id) THEN Ret(w, "ConstraintSeeds", <<>>)
  ELSE IF pool_acct \in DOMAIN w.pools THEN Ret(w, "AccountAlreadyInUse", <<>>)
  ELSE IF w.subs[sub_acct].owner # owner THEN Ret(w, "ConstraintRaw", <<>>)
  ELSE IF max_size = 0 THEN Ret(w, "InvalidPoolSize", <<>>)
  ELSE Ret([w EXCEPT !.pools = @ @@ (pool_acct :>
              [subscription |-> sub_acct, pool_id |-> pool_id,
               request_count |-> 0, max_size |-> max_size,
               request_entries |-> <<>>, last_processed_slot |-> now])],
           "Ok", <<>>)

\* The request id is computed and dropped; the request account is created by
\* `init` and never written; the subscription is read only.  The pool is
\* written back into its account on exit.
test_kamui_vrf_request_randomness(w, now, is_signer, owner, request_account, sub_acct, pool_acct, seed, callback_data, num_words, minimum_confirmations, callback_gas_limit, pool_id) ==
  IF ~is_signer THEN Ret(w, "AccountNotSigner", <<>>)
  ELSE IF sub_acct \notin DOMAIN w.subs \/ pool_acct \notin DOMAIN w.pools
  THEN Ret(w, "AccountNotInitialized", <<>>)
  ELSE IF request_account \in DOMAIN w.reqs THEN Ret(w, "AccountAlreadyInUse", <<>>)
  ELSE IF w.subs[sub_acct].balance < w.subs[sub_acct].min_balance
          \/ w.subs[sub_acct].active_requests >= w.subs[sub_acct].max_requests
  THEN Ret(w, "ConstraintRaw", <<>>)
  ELSE IF pool_acct # PoolAddress(sub_acct, pool_id) THEN Ret(w, "ConstraintSeeds", <<>>)
  ELSE IF w.pools[pool_acct].subscription # sub_acct
          \/ w.pools[pool_acct].pool_id # pool_id
          \/ w.pools[pool_acct].request_count >= w.pools[pool_acct].max_size
  THEN Ret(w, "ConstraintRaw", <<>>)
  ELSE IF w.subs[sub_acct].active_requests >= w.subs[sub_acct].max_requests
  THEN Ret(w, "TooManyActiveRequests", <<>>)
  ELSE IF w.pools[pool_acct].request_count >= w.pools[pool_acct].max_size
  THEN Ret(w, "PoolFull", <<>>)
  ELSE
    LET data == [requester |-> owner, seed_hash |-> Keccak(<<seed>>),
                 timestamp |-> now, status |-> "Pending", request_slot |-> now,
                 callback_gas_limit |-> callback_gas_limit]
        w1 == [w EXCEPT
                 !.reqs = @ @@ (request_account :> DefaultRandomnessRequest),
                 !.pools[pool_acct] =
                    [@ EXCEPT
                       !.request_entries = Append(@, [index |-> 0, data |-> data]),
                       !.request_count = AddWide(@, 1)]]
    IN IF ~anchor_exit_fits(w1.subs[sub_acct], w1.pools[pool_acct])
       THEN Ret(w, "AccountDidNotSerialize", <<>>)
       ELSE Ret(w1, "Ok", <<>>)

\* request_index is used as a position in the vector of entries
test_kamui_vrf_fulfill_randomness(w, is_signer, request_account, vrf_result_account, pool_acct, sub_acct, proof, request_id, pool_id, request_index) ==
  IF ~is_signer THEN Ret(w, "AccountNotSigner", <<>>)
  ELSE IF request_account \notin DOMAIN w.reqs
          \/ pool_acct \notin DOMAIN w.pools \/ sub_acct \notin DOMAIN w.subs
  THEN Ret(w, "AccountNotInitialized", <<>>)
  ELSE IF vrf_result_account # "derived" THEN Ret(w, "ConstraintSeeds", <<>>)
  ELSE IF request_account \in DOMAIN w.res THEN Ret(w, "AccountAlreadyInUse", <<>>)
  ELSE IF w.reqs[request_account].request_id # request_id
          \/ w.reqs[request_account].status # "Pending"
  THEN Ret(w, "ConstraintRaw", <<>>)
  ELSE IF pool_acct # PoolAddress(sub_acct, pool_id) THEN Ret(w, "ConstraintSeeds", <<>>)
  ELSE IF w.pools[pool_acct].subscription # sub_acct
          \/ w.pools[pool_acct].pool_id # pool_id
          \/ w.reqs[request_account].subscription # sub_acct
  THEN Ret(w, "ConstraintRaw", <<>>)
  ELSE IF request_index >= Len(w.pools[pool_acct].request_entries)
  THEN Ret(w, "InvalidRequestIndex", <<>>)
  ELSE IF w.pools[pool_acct].request_entries[request_index + 1].data.status # "Pending"
  THEN Ret(w, "RequestAlreadyFulfilled", <<>>)
  ELSE IF proof = <<>> THEN Ret(w, "InvalidProof", <<>>)
  ELSE Ret([w EXCEPT
              !.res = @ @@ (request_account :> DefaultVrfResult),
              !.pools[pool_acct].request_entries[request_index + 1].data.status =
                 "Fulfilled"],
           "Ok", <<>>)

(***************************************************************************)
(* kamui-program/programs/kamui-vrf/src/lib.rs: the anchor program.  Its   *)
(* account structs are those of the anchor state.rs.  Its oracle registry  *)
(* instructions write only registry and oracle accounts, which none of the *)
(* instructions below reads.                                               *)
(***************************************************************************)
\* state.rs (anchor): the room `init` gives a request account and a result
\* account, each vector at its max_len (256 bytes of callback data; 100
\* words and 512 bytes of proof)
RandomnessRequest_INIT_SPACE == 32 + 32 + 32 + (4 + 256) + 8 + 1 + 4 + 8 + 1 + 4 + 32

VrfResult_INIT_SPACE == (4 + 100 * 64) + (4 + 512) + 8 + 32

\* a proof of the ECVRF is 80 bytes (gamma, c, s); the instruction takes any
\* byte vector, here an empty one and one of a given length
ProofLen(proof) ==
  IF proof = <<>> THEN 0 ELSE IF proof[1] = "bytes" THEN proof[2] ELSE 80

VrfResultLen(result) ==
  (4 + 64 * Len(result.randomness)) + (4 + ProofLen(result.proof)) + 8 + 32

kamui_vrf_create_enhanced_subscription(w, is_signer, owner, sub_acct, min_balance, confirmations, max_requests) ==
  IF ~is_signer THEN Ret(w, "AccountNotSigner", <<>>)
  ELSE IF sub_acct \in DOMAIN w.subs THEN Ret(w, "AccountAlreadyInUse", <<>>)
  ELSE IF confirmations < MINIMUM_REQUEST_CONFIRMATIONS
          \/ confirmations > MAXIMUM_REQUEST_CONFIRMATIONS
  THEN Ret(w, "InvalidConfirmations", <<>>)
  ELSE IF max_requests = 0 \/ max_requests > MAX_REQUESTS_PER_SUBSCRIPTION
  THEN Ret(w, "InvalidMaxRequests", <<>>)
  ELSE Ret([w EXCEPT !.subs = @ @@ (sub_acct :>
              [owner |-> owner, balance |-> 0, min_balance |-> min_balance,
               confirmations |-> confirmations, active_requests |-> 0,
               max_requests |-> max_requests, request_counter |-> 0,
               request_keys |-> <<>>, pool_ids |-> <<>>])],
           "Ok", <<>>)

kamui_vrf_fund_subscription(w, is_signer, sub_acct, amount) ==
  IF ~is_signer THEN Ret(w, "AccountNotSigner", <<>>)
  ELSE IF sub_acct \notin DOMAIN w.subs THEN Ret(w, "AccountNotInitialized", <<>>)
  ELSE IF amount = 0 THEN Ret(w, "InvalidAmount", <<>>)
  ELSE Ret([w EXCEPT !.subs[sub_acct].balance = AddWide(@, amount)], "Ok", <<>>)

\* The handler pushes the pool id onto the subscription it holds in memory;
\* the subscription of InitializeRequestPool is not `mut`, so the framework
\* does not write it back and the stored pool_ids stay as they were.
kamui_vrf_initialize_request_pool(w, now, is_signer, owner, sub_acct, pool_acct, pool_id, max_size) ==
  IF ~is_signer THEN Ret(w, "AccountNotSigner", <<>>)
  ELSE IF sub_acct \notin DOMAIN w.subs THEN Ret(w, "AccountNotInitialized", <<>>)
  ELSE IF pool_acct # PoolAddress(sub_acct, pool_id) THEN Ret(w, "ConstraintSeeds", <<>>)
  ELSE IF pool_acct \in DOMAIN w.pools THEN Ret(w, "AccountAlreadyInUse", <<>>)
  ELSE IF w.subs[sub_acct].owner # owner THEN Ret(w, "ConstraintRaw", <<>>)
  ELSE IF max_size = 0 THEN Ret(w, "InvalidPoolSize", <<>>)
  ELSE Ret([w EXCEPT
              !.pools = @ @@ (pool_acct :>
                 [subscription |-> sub_acct, pool_id |-> pool_id,
                  request_count |-> 0, max_size |-> max_size,
                  request_entries |-> <<>>, last_processed_slot |-> now])],
           "Ok", <<>>)

kamui_vrf_request_randomness(w, now, is_signer, owner, request_account, sub_acct, pool_acct, seed, callback_data, num_words, minimum_confirmations, callback_gas_limit, pool_id) ==
  IF ~is_signer THEN Ret(w, "AccountNotSigner", <<>>)
  ELSE IF sub_acct \notin DOMAIN w.subs \/ pool_acct \notin DOMAIN w.pools
  THEN Ret(w, "AccountNotInitialized", <<>>)
  ELSE IF request_account \in DOMAIN w.reqs THEN Ret(w, "AccountAlreadyInUse", <<>>)
  ELSE IF w.subs[sub_acct].balance < w.subs[sub_acct].min_balance
          \/ w.subs[sub_acct].active_requests >= w.subs[sub_acct].max_requests
  THEN Ret(w, "ConstraintRaw", <<>>)
  ELSE IF pool_acct # PoolAddress(sub_acct, pool_id) THEN Ret(w, "ConstraintSeeds", <<>>)
  ELSE IF w.pools[pool_acct].subscription # sub_acct
          \/ w.pools[pool_acct].pool_id # pool_id
          \/ w.pools[pool_acct].request_count >= w.pools[pool_acct].max_size
  THEN Ret(w, "ConstraintRaw", <<>>)
  ELSE IF minimum_confirmations < MINIMUM_REQUEST_CONFIRMATIONS
          \/ minimum_confirmations > MAXIMUM_REQUEST_CONFIRMATIONS
  THEN Ret(w, "InvalidConfirmations", <<>>)
  ELSE IF num_words = 0 \/ num_words > MAXIMUM_RANDOM_WORDS
  THEN Ret(w, "InvalidWordCount", <<>>)
  ELSE IF callback_gas_limit < MINIMUM_CALLBACK_GAS_LIMIT
          \/ callback_gas_limit > MAXIMUM_CALLBACK_GAS_LIMIT
  THEN Ret(w, "InvalidGasLimit", <<>>)
  ELSE IF w.pools[pool_acct].subscription # sub_acct
  THEN Ret(w, "InvalidPoolSubscription", <<>>)
  ELSE IF w.pools[pool_acct].pool_id # pool_id THEN Ret(w, "InvalidPoolId", <<>>)
  ELSE IF w.subs[sub_acct].active_requests >= w.subs[sub_acct].max_requests
  THEN Ret(w, "TooManyRequests", <<>>)
  ELSE IF w.subs[sub_acct].balance < w.subs[sub_acct].min_balance
  THEN Ret(w, "InsufficientFunds", <<>>)
  ELSE IF w.pools[pool_acct].request_count >= w.pools[pool_acct].max_size
  THEN Ret(w, "PoolCapacityExceeded", <<>>)
  ELSE
    LET request_index == anchor_next_request_index(w.pools[pool_acct])
        request_id == anchor_generate_request_id(seed, owner, sub_acct, pool_id,
                                                 request_index, now)
        request ==
          [subscription |-> sub_acct, seed |-> seed, requester |-> owner,
           callback_data |-> callback_data, request_slot |-> now,
           status |-> "Pending", num_words |-> num_words,
           callback_gas_limit |-> callback_gas_limit, pool_id |-> pool_id,
           request_index |-> request_index, request_id |-> request_id]
        request_summary ==
          [requester |-> owner, seed_hash |-> Keccak(<<seed>>),
           timestamp |-> now, status |-> "Pending", request_slot |-> now,
           callback_gas_limit |-> callback_gas_limit]
        w1 == [w EXCEPT
                 !.reqs = @ @@ (request_account :> request),
                 !.pools[pool_acct] =
                    [anchor_add_request(@, request_index, request_summary) EXCEPT
                       !.request_count = AddWide(@, 1)],
                 !.subs[sub_acct] =
                    [@ EXCEPT
                       !.active_requests = @ + 1,
                       !.request_keys = Append(@, Truncate16(request_id)),
                       !.request_counter = AddWide(@, 1)]]
    IN IF \/ RequestLen(request) > RandomnessRequest_INIT_SPACE
          \/ ~anchor_exit_fits(w1.subs[sub_acct], w1.pools[pool_acct])
       THEN Ret(w, "AccountDidNotSerialize", <<>>)
       ELSE Ret(w1, "Ok", <<>>)

\* The stored key is the leading 16 bytes of a request id; retain compares
\* the key padded with 16 zero bytes with the whole id, which differs from
\* it unless the id ends in 16 zero bytes.  On exit the request, the result,
\* the pool and the subscription are serialised into their accounts.
kamui_vrf_fulfill_randomness(w, now, is_signer, request_account, vrf_result_account, pool_acct, sub_acct, proof, request_id, pool_id, request_index) ==
  IF ~is_signer THEN Ret(w, "AccountNotSigner", <<>>)
  ELSE IF request_account \notin DOMAIN w.reqs
          \/ pool_acct \notin DOMAIN w.pools \/ sub_acct \notin DOMAIN w.subs
  THEN Ret(w, "AccountNotInitialized", <<>>)
  ELSE IF vrf_result_account # "derived" THEN Ret(w, "ConstraintSeeds", <<>>)
  ELSE IF request_account \in DOMAIN w.res THEN Ret(w, "AccountAlreadyInUse", <<>>)
  ELSE IF w.reqs[request_account].request_id # request_id
          \/ w.reqs[request_account].status # "Pending"
  THEN Ret(w, "ConstraintRaw", <<>>)
  ELSE IF pool_acct # PoolAddress(sub_acct, pool_id) THEN Ret(w, "ConstraintSeeds", <<>>)
  ELSE IF w.pools[pool_acct].subscription # sub_acct
          \/ w.pools[pool_acct].pool_id # pool_id
          \/ w.reqs[request_account].subscription # sub_acct
  THEN Ret(w, "ConstraintRaw", <<>>)
  ELSE IF w.reqs[request_account].request_id # request_id
  THEN Ret(w, "InvalidRequestId", <<>>)
  ELSE IF w.reqs[request_account].pool_id # pool_id THEN Ret(w, "InvalidPoolId", <<>>)
  ELSE IF w.reqs[request_account].request_index # request_index
  THEN Ret(w, "InvalidRequestIndex", <<>>)
  ELSE IF w.reqs[request_account].status # "Pending"
  THEN Ret(w, "RequestNotPending", <<>>)
  ELSE
    LET pos == anchor_find_request(w.pools[pool_acct], request_index)
        Retained(key) == <<"pad32", key>> # request_id
        vrf_result == [randomness |-> <<>>, proof |-> proof, proof_slot |-> now,
                       request_id |-> request_id]
        w1 == [w EXCEPT
                 !.reqs[request_account].status = "Fulfilled",
                 !.res = @ @@ (request_account :> vrf_result),
                 !.subs[sub_acct] =
                    [@ EXCEPT !.active_requests = SatSub(@, 1),
                              !.request_keys = SelectSeq(@, Retained)]]
        w2 == IF pos = 0 THEN w1
              ELSE [w1 EXCEPT !.pools[pool_acct].request_entries[pos].data.status =
                                 "Fulfilled"]
    IN IF \/ VrfResultLen(vrf_result) > VrfResult_INIT_SPACE
          \/ RequestLen(w2.reqs[request_account]) > RandomnessRequest_INIT_SPACE
          \/ ~anchor_exit_fits(w2.subs[sub_acct], w2.pools[pool_acct])
       THEN Ret(w, "AccountDidNotSerialize", <<>>)
       ELSE Ret(w2, "Ok", <<>>)


(***************************************************************************)
(* compressed_vrf.rs: the instructions the program has when it is built    *)
(* with the feature "compressed-accounts" (lib.rs 13-26, 66-127); a build  *)
(* without the feature knows none of them.  They keep a request in the     *)
(* pool and in the counters of the subscription only.  The accounts of     *)
(* RequestCompressedRandomness declare #[instruction(pool_id: u8)], which  *)
(* reads the first byte of the instruction data: its constraints take the  *)
(* first byte of the seed for the pool id, the handler takes the argument. *)
(***************************************************************************)
CompressedBuild ==
  [subs |-> <<>>, pools |-> <<>>, reqs |-> <<>>, res |-> <<>>, reg |-> NoRegistry,
   orc |-> <<>>, features |-> {"compressed-accounts"}]

Features(w) == IF "features" \in DOMAIN w THEN w.features ELSE {}

LIGHT_SYSTEM_PROGRAM_ID == "SySTEM1eSU2p4BGQfQpimFEWWSC1XDFeun3Nqzz3rT7"

\* a seed stands for the number its 32 bytes spell, lowest byte first
FirstByte(seed) == seed % 256

kamui_vrf_create_compressed_vrf_accounts(w, payer_is_signer, authority_is_signer) ==
  IF "compressed-accounts" \notin Features(w)
  THEN Ret(w, "InstructionFallbackNotFound", <<>>)
  ELSE IF ~payer_is_signer \/ ~authority_is_signer THEN Ret(w, "AccountNotSigner", <<>>)
  ELSE Ret(w, "Ok", <<>>)

kamui_vrf_request_compressed_randomness(w, now, is_signer, owner, sub_acct, pool_acct, light_system_program, seed, num_words, minimum_confirmations, callback_gas_limit, pool_id) ==
  IF "compressed-accounts" \notin Features(w)
  THEN Ret(w, "InstructionFallbackNotFound", <<>>)
  ELSE IF ~is_signer THEN Ret(w, "AccountNotSigner", <<>>)
  ELSE IF sub_acct \notin DOMAIN w.subs \/ pool_acct \notin DOMAIN w.pools
  THEN Ret(w, "AccountNotInitialized", <<>>)
  ELSE IF w.subs[sub_acct].balance < w.subs[sub_acct].min_balance
          \/ w.subs[sub_acct].active_requests >= w.subs[sub_acct].max_requests
  THEN Ret(w, "ConstraintRaw", <<>>)
  ELSE IF pool_acct # PoolAddress(sub_acct, FirstByte(seed))
  THEN Ret(w, "ConstraintSeeds", <<>>)
  ELSE IF w.pools[pool_acct].subscription # sub_acct
          \/ w.pools[pool_acct].pool_id # FirstByte(seed)
          \/ w.pools[pool_acct].request_count >= w.pools[pool_acct].max_size
          \/ light_system_program # LIGHT_SYSTEM_PROGRAM_ID
  THEN Ret(w, "ConstraintRaw", <<>>)
  ELSE IF minimum_confirmations < MINIMUM_REQUEST_CONFIRMATIONS
          \/ minimum_confirmations > MAXIMUM_REQUEST_CONFIRMATIONS
  THEN Ret(w, "InvalidConfirmations", <<>>)
  ELSE IF num_words = 0 \/ num_words > MAXIMUM_RANDOM_WORDS
  THEN Ret(w, "InvalidWordCount", <<>>)
  ELSE IF callback_gas_limit < MINIMUM_CALLBACK_GAS_LIMIT
          \/ callback_gas_limit > MAXIMUM_CALLBACK_GAS_LIMIT
  THEN Ret(w, "InvalidGasLimit", <<>>)
  ELSE
    LET request_index == anchor_next_request_index(w.pools[pool_acct])
        request_id == anchor_generate_request_id(seed, owner, sub_acct, pool_id,
                                                 request_index, now)
        request_summary ==
          [requester |-> owner, seed_hash |-> Keccak(<<seed>>),
           timestamp |-> now, status |-> "Pending", request_slot |-> now,
           callback_gas_limit |-> callback_gas_limit]
        w1 == [w EXCEPT
                 !.pools[pool_acct] =
                    [anchor_add_request(@, request_index, request_summary) EXCEPT
                       !.request_count = AddWide(@, 1)],
                 !.subs[sub_acct] =
                    [@ EXCEPT
                       !.active_requests = @ + 1,
                       !.request_keys = Append(@, Truncate16(request_id)),
                       !.request_counter = AddWide(@, 1)]]
    IN IF ~anchor_exit_fits(w1.subs[sub_acct], w1.pools[pool_acct])
       THEN Ret(w, "AccountDidNotSerialize", <<>>)
       ELSE Ret(w1, "Ok", <<>>)

\* request_data_owner is the owner of the account compressed_request_data
kamui_vrf_fulfill_compressed_randomness(w, is_signer, pool_acct, sub_acct, light_system_program, request_data_owner, request_id, pool_id, request_index) ==
  IF "compressed-accounts" \notin Features(w)
  THEN Ret(w, "InstructionFallbackNotFound", <<>>)
  ELSE IF ~is_signer THEN Ret(w, "AccountNotSigner", <<>>)
  ELSE IF pool_acct \notin DOMAIN w.pools \/ sub_acct \notin DOMAIN w.subs
  THEN Ret(w, "AccountNotInitialized", <<>>)
  ELSE IF pool_acct # PoolAddress(sub_acct, pool_id) THEN Ret(w, "ConstraintSeeds", <<>>)
  ELSE IF w.pools[pool_acct].subscription # sub_acct
          \/ w.pools[pool_acct].pool_id # pool_id
          \/ request_data_owner # LIGHT_SYSTEM_PROGRAM_ID
          \/ light_system_program # LIGHT_SYSTEM_PROGRAM_ID
  THEN Ret(w, "ConstraintRaw", <<>>)
  ELSE
    LET pos == anchor_find_request(w.pools[pool_acct], request_index)
        Retained(key) == <<"pad32", key>> # request_id
        w1 == [w EXCEPT
                 !.subs[sub_acct] =
                    [@ EXCEPT !.active_requests = SatSub(@, 1),
                              !.request_keys = SelectSeq(@, Retained)]]
    IN Ret(IF pos = 0 THEN w1
           ELSE [w1 EXCEPT !.pools[pool_acct].request_entries[pos].data.status =
                              "Fulfilled"],
           "Ok", <<>>)
\* the instructions of the test-kamui program, on its own accounts
TestCommit(r) ==
  /\ testprog' = r.w
  /\ UNCHANGED <<coordinator, anchor, lz, codec, legacy>>

AnchorCreateInputs ==
  UNION {{[CreateBase(acct) EXCEPT !.is_signer = sg] : sg \in BOOLEAN}
         \cup {[CreateBase(acct) EXCEPT !.confirmations = c] : c \in ConfirmationInputs}
         \cup {[CreateBase(acct) EXCEPT !.max_requests = m] : m \in MaxRequestsInputs}
           : acct \in SubAccts}

TestCreateSubscription ==
  \E a \in AnchorCreateInputs, owner \in Users :
    TestCommit(test_kamui_vrf_create_enhanced_subscription(
                 testprog, a.is_signer, owner, a.acct, a.min_balance,
                 a.confirmations, a.max_requests))

AnchorFundInputs ==
  {[is_signer |-> sg, acct |-> acct, amount |-> amount] :
     sg \in BOOLEAN, acct \in SubAccts, amount \in FundAmounts \cup {0}}

TestFundSubscription ==
  \E a \in AnchorFundInputs :
    LET r == test_kamui_vrf_fund_subscription(testprog, a.is_signer, a.acct,
                                              a.amount)
    IN /\ r.err = "Ok" => r.w.subs[a.acct].balance <= MaxFunds * a.amount
       /\ TestCommit(r)

AnchorPoolInputs == PoolInputs \cup {[PoolBase EXCEPT !.max_size = 0]}

TestInitializeRequestPool ==
  \E a \in AnchorPoolInputs :
    TestCommit(test_kamui_vrf_initialize_request_pool(
                 testprog, slot, a.is_signer, a.owner, a.sub_acct, a.pool_acct,
                 a.pool_id, a.max_size))

\* the arguments of request_randomness with a fresh request account, and
\* with a request account that exists
AnchorRequestInputs(w) ==
  {[a EXCEPT !.request_account = FreshRequestAccount(w), !.requester = o] :
     a \in RequestInputs, o \in Users}
  \cup {[RequestBase EXCEPT !.request_account = ra] : ra \in DOMAIN w.reqs}

TestRequestCall(w, now, a) ==
  test_kamui_vrf_request_randomness(
    w, now, a.is_signer, a.requester, a.request_account, a.sub_acct, a.pool_acct,
    a.seed, a.callback_data, a.num_words, a.minimum_confirmations,
    a.callback_gas_limit, a.pool_id)

TestRequestRandomness ==
  \E a \in AnchorRequestInputs(testprog) : TestCommit(TestRequestCall(testprog, slot, a))

\* the arguments of fulfill_randomness: a request account with the id it
\* holds, every pool and subscription, every position of the pool and one
\* past the last, with and without a proof
TestFulfillInputs(w) ==
  {[is_signer |-> sg, request_account |-> ra, vrf_result_account |-> va,
    pool_acct |-> p, sub_acct |-> w.pools[p].subscription, proof |-> pf,
    request_id |-> w.reqs[ra].request_id, pool_id |-> w.pools[p].pool_id,
    request_index |-> i] :
     sg \in BOOLEAN, ra \in DOMAIN w.reqs, va \in {"derived", "other"},
     p \in DOMAIN w.pools, pf \in {<<>>, BadProof}, i \in 0..MaxReqs}

TestFulfillRandomness ==
  \E a \in TestFulfillInputs(testprog) :
    TestCommit(test_kamui_vrf_fulfill_randomness(
                 testprog, a.is_signer, a.request_account, a.vrf_result_account,
                 a.pool_acct, a.sub_acct, a.proof, a.request_id, a.pool_id,
                 a.request_index))

\* the instructions of the anchor program, on its own accounts
AnchorCommit(r) ==
  /\ anchor' = r.w
  /\ UNCHANGED <<coordinator, testprog, lz, codec, legacy>>

AnchorCreateSubscription ==
  \E a \in AnchorCreateInputs, owner \in Users :
    AnchorCommit(kamui_vrf_create_enhanced_subscription(
                   anchor, a.is_signer, owner, a.acct, a.min_balance,
                   a.confirmations, a.max_requests))

AnchorFundSubscription ==
  \E a \in AnchorFundInputs :
    LET r == kamui_vrf_fund_subscription(anchor, a.is_signer, a.acct, a.amount)
    IN /\ r.err = "Ok" => r.w.subs[a.acct].balance <= MaxFunds * a.amount
       /\ AnchorCommit(r)

AnchorInitializeRequestPool ==
  \E a \in AnchorPoolInputs :
    AnchorCommit(kamui_vrf_initialize_request_pool(
                   anchor, slot, a.is_signer, a.owner, a.sub_acct, a.pool_acct,
                   a.pool_id, a.max_size))

AnchorRequestCall(w, now, a) ==
  kamui_vrf_request_randomness(
    w, now, a.is_signer, a.requester, a.request_account, a.sub_acct, a.pool_acct,
    a.seed, a.callback_data, a.num_words, a.minimum_confirmations,
    a.callback_gas_limit, a.pool_id)

\* callback data one byte longer than the request account has room for
LongCallbackData == [i \in 1..257 |-> 0]

\* the arguments of request_randomness of the anchor program: those above,
\* a call with callback data too long, and a call with every parameter at
\* the upper end of its range
KamuiRequestInputs(w) ==
  AnchorRequestInputs(w)
  \cup {[RequestBase EXCEPT !.request_account = FreshRequestAccount(w),
                            !.callback_data = LongCallbackData],
        [RequestBase EXCEPT !.request_account = FreshRequestAccount(w),
                            !.num_words = MAXIMUM_RANDOM_WORDS,
                            !.minimum_confirmations = MAXIMUM_REQUEST_CONFIRMATIONS,
                            !.callback_gas_limit = MAXIMUM_CALLBACK_GAS_LIMIT]}

AnchorRequestRandomness ==
  \E a \in KamuiRequestInputs(anchor) : AnchorCommit(AnchorRequestCall(anchor, slot, a))

\* a proof one byte longer than the result account has room for
LongProof == <<"bytes", VrfResult_INIT_SPACE - (4 + 4 + 8 + 32) + 1>>

\* the arguments of fulfill_randomness: a request account with its own id,
\* pool id, index, pool and subscription accounts, and each of them off
AnchorFulfillInputs(w) ==
  UNION {
    {[CallArgs(w, ra) EXCEPT !.pool_acct = p, !.sub_acct = w.pools[p].subscription] :
       p \in DOMAIN w.pools}
    \cup CallDeviations(CallArgs(w, ra))
    \cup {[CallArgs(w, ra) EXCEPT !.proof = pf] : pf \in {BadProof, LongProof}}
      : ra \in DOMAIN w.reqs}

AnchorFulfillCall(w, now, a) ==
  kamui_vrf_fulfill_randomness(
    w, now, a.is_signer, a.request_account, a.vrf_result_account, a.pool_acct,
    a.sub_acct, a.proof, a.request_id, a.pool_id, a.request_index)

AnchorFulfillRandomness ==
  \E a \in AnchorFulfillInputs(anchor) : AnchorCommit(AnchorFulfillCall(anchor, slot, a))


\* the instructions of the build with compressed accounts: a request whose
\* seed begins with the id of the pool, and each argument off in turn
CompressedRequestBase ==
  [RequestBase EXCEPT !.seed = 1] @@ [light_system_program |-> LIGHT_SYSTEM_PROGRAM_ID]

CompressedRequestInputs ==
  {[CompressedRequestBase EXCEPT !.sub_acct = s, !.pool_acct = PoolAddress(s, 1),
                                 !.requester = KeyHolder(s)] : s \in SubAccts}
  \cup {[CompressedRequestBase EXCEPT !.is_signer = FALSE],
        [CompressedRequestBase EXCEPT !.seed = RequestBase.seed],
        [CompressedRequestBase EXCEPT !.pool_id = 2],
        [CompressedRequestBase EXCEPT !.light_system_program = "other"],
        [CompressedRequestBase EXCEPT !.num_words = 0],
        [CompressedRequestBase EXCEPT !.minimum_confirmations = 0],
        [CompressedRequestBase EXCEPT !.callback_gas_limit = MINIMUM_CALLBACK_GAS_LIMIT - 1]}

CompressedRequestCall(w, now, a) ==
  kamui_vrf_request_compressed_randomness(
    w, now, a.is_signer, a.requester, a.sub_acct, a.pool_acct,
    a.light_system_program, a.seed, a.num_words, a.minimum_confirmations,
    a.callback_gas_limit, a.pool_id)

AnchorCreateCompressedVrfAccounts ==
  \E payer_is_signer \in BOOLEAN :
    AnchorCommit(kamui_vrf_create_compressed_vrf_accounts(anchor, payer_is_signer, TRUE))

AnchorRequestCompressedRandomness ==
  \E a \in CompressedRequestInputs : AnchorCommit(CompressedRequestCall(anchor, slot, a))

\* the arguments of fulfill_compressed_randomness: a pool with its
\* subscription, the index of its first entry and of none, the id of a
\* request account when there is one, and each of the accounts off
CompressedFulfillInputs(w) ==
  UNION {
    {[is_signer |-> TRUE, pool_acct |-> p, sub_acct |-> w.pools[p].subscription,
      light_system_program |-> LIGHT_SYSTEM_PROGRAM_ID,
      request_data_owner |-> LIGHT_SYSTEM_PROGRAM_ID, request_id |-> BadRequestId,
      pool_id |-> w.pools[p].pool_id, request_index |-> i] : i \in {0, MaxReqs}}
    \cup {[is_signer |-> sg, pool_acct |-> p, sub_acct |-> s,
           light_system_program |-> LIGHT_SYSTEM_PROGRAM_ID,
           request_data_owner |-> o, request_id |-> BadRequestId,
           pool_id |-> w.pools[p].pool_id, request_index |-> 0] :
            sg \in BOOLEAN, s \in {w.pools[p].subscription, NoAccount},
            o \in {LIGHT_SYSTEM_PROGRAM_ID, "system"}}
      : p \in DOMAIN w.pools}

CompressedFulfillCall(w, a) ==
  kamui_vrf_fulfill_compressed_randomness(
    w, a.is_signer, a.pool_acct, a.sub_acct, a.light_system_program,
    a.request_data_owner, a.request_id, a.pool_id, a.request_index)

AnchorFulfillCompressedRandomness ==
  \E a \in CompressedFulfillInputs(anchor) : AnchorCommit(CompressedFulfillCall(anchor, a))

(***************************************************************************)
(* The LayerZero OApp (standalone-layerzero).  Byte strings are sequences  *)
(* of numbers 0..255 and a String is the sequence of its UTF-8 bytes.      *)
(***************************************************************************)
ETHEREUM_SEPOLIA_EID == 40161
ARBITRUM_SEPOLIA_EID == 40231
MAX_VRF_REQUESTS == 100
STRING_OFFSET == 32

\* the value of a Result
Okv(v) == [ok |-> TRUE, val |-> v, err |-> "Ok"]
Errv(e) == [ok |-> FALSE, val |-> <<>>, err |-> e]

\* [b; n]
Repeat(b, n) == [i \in 1..n |-> b]

\* &buf[from..to]
Slice(buf, from, to) == SubSeq(buf, from + 1, to)

\* u32::to_be_bytes
U32BE(n) == <<(n \div 16777216) % 256, (n \div 65536) % 256, (n \div 256) % 256, n % 256>>

\* u32::from_be_bytes
FromU32BE(b) == ((b[1] * 256 + b[2]) * 256 + b[3]) * 256 + b[4]

\* a continuation byte of UTF-8
IsCont(b) == b >= 128 /\ b <= 191

\* str::from_utf8(bytes).is_ok(), from position i on
RECURSIVE IsUtf8From(_, _)
IsUtf8From(s, i) ==
  IF i > Len(s) THEN TRUE
  ELSE IF \A j \in i..Len(s) : s[j] <= 127 THEN TRUE
  ELSE IF s[i] <= 127 THEN IsUtf8From(s, i + 1)
  ELSE IF s[i] >= 194 /\ s[i] <= 223
  THEN i + 1 <= Len(s) /\ IsCont(s[i + 1]) /\ IsUtf8From(s, i + 2)
  ELSE IF s[i] >= 224 /\ s[i] <= 239
  THEN /\ i + 2 <= Len(s)
       /\ IsCont(s[i + 1]) /\ IsCont(s[i + 2])
       /\ (s[i] = 224 => s[i + 1] >= 160)
       /\ (s[i] = 237 => s[i + 1] <= 159)
       /\ IsUtf8From(s, i + 3)
  ELSE IF s[i] >= 240 /\ s[i] <= 244
  THEN /\ i + 3 <= Len(s)
       /\ IsCont(s[i + 1]) /\ IsCont(s[i + 2]) /\ IsCont(s[i + 3])
       /\ (s[i] = 240 => s[i + 1] >= 144)
       /\ (s[i] = 244 => s[i + 1] <= 143)
       /\ IsUtf8From(s, i + 4)
  ELSE FALSE

(***************************************************************************)
(* msg_codec.rs                                                            *)
(***************************************************************************)
decode_string_len(buf) ==
  IF Len(buf) < STRING_OFFSET THEN Errv("InvalidLength")
  ELSE Okv(FromU32BE(Slice(buf, 28, 32)))

encode(string) == Repeat(0, 28) \o U32BE(Len(string)) \o string

decode(message) ==
  LET string_len == decode_string_len(message)
  IN IF ~string_len.ok THEN string_len
     ELSE IF STRING_OFFSET + string_len.val > Len(message) THEN Errv("BodyTooShort")
     ELSE LET payload == Slice(message, STRING_OFFSET, STRING_OFFSET + string_len.val)
          IN IF IsUtf8From(payload, 1) THEN Okv(payload) ELSE Errv("InvalidUtf8")

\* a faulty encoder: num_words is written little-endian
encode_vrf_request_le(payload) ==
  LET be == U32BE(payload.num_words)
  IN <<0>> \o payload.requester \o payload.seed \o payload.callback_data
          \o <<be[4], be[3], be[2], be[1]>> \o <<payload.pool_id>>

encode_vrf_request(payload) ==
  <<0>> \o payload.requester \o payload.seed \o payload.callback_data
        \o U32BE(payload.num_words) \o <<payload.pool_id>>

encode_vrf_fulfillment(payload) == <<1>> \o payload.request_id \o payload.randomness

decode_message_type(message) ==
  IF message = <<>> THEN Errv("InvalidLength")
  ELSE IF message[1] = 0 THEN Okv("VrfRequest")
  ELSE IF message[1] = 1 THEN Okv("VrfFulfillment")
  ELSE Okv("Generic")

decode_vrf_request(message) ==
  IF Len(message) < 102 THEN Errv("InvalidLength")
  ELSE Okv([msg_type |-> "VrfRequest",
            requester |-> Slice(message, 1, 33),
            seed |-> Slice(message, 33, 65),
            callback_data |-> Slice(message, 65, 97),
            num_words |-> FromU32BE(Slice(message, 97, 101)),
            pool_id |-> message[102]])

decode_vrf_fulfillment(message) ==
  IF Len(message) < 97 THEN Errv("InvalidLength")
  ELSE Okv([msg_type |-> "VrfFulfillment",
            request_id |-> Slice(message, 1, 33),
            randomness |-> Slice(message, 33, 97)])

(***************************************************************************)
(* The accounts of the OApp: the Store PDA, one PeerConfig PDA per remote  *)
(* endpoint id, and the inbound payloads the Endpoint program holds for    *)
(* the OApp.  received is a history of the parameters with which           *)
(* lz_receive has succeeded; no handler reads it.                          *)
(***************************************************************************)
Eids == {ETHEREUM_SEPOLIA_EID, ARBITRUM_SEPOLIA_EID}

\* "Nothing received yet."
NothingReceivedYet == <<78, 111, 116, 104, 105, 110, 103, 32, 114, 101, 99, 101, 105, 118, 101, 100, 32, 121, 101, 116, 46>>

NoStore == [initialized |-> FALSE, admin |-> "default", endpoint_program |-> "default", string |-> <<>>, pending_requests |-> <<>>]

DefaultPeerConfig == [peer_address |-> Repeat(0, 32), enforced_options |-> [send |-> <<>>, send_and_call |-> <<>>]]

NoLayerZero == [store |-> NoStore, peers |-> <<>>, endpoint |-> [payloads |-> {}, inbound_nonce |-> <<>>], received |-> {}]

\* an EVM address padded to 32 bytes
EvmAddress(b) == Repeat(0, 12) \o Repeat(b, 20)

\* the address with its lowest bit flipped
FlipBit(address) == [address EXCEPT ![32] = IF @ % 2 = 0 THEN @ + 1 ELSE @ - 1]

(***************************************************************************)
(* The Endpoint program.  It numbers the messages of a path (src_eid,      *)
(* sender) from 1, holds the payload of each verified message until the    *)
(* receiver clears it, and clears a payload once.                          *)
(***************************************************************************)
NonceOf(ep, src_eid, sender) ==
  IF <<src_eid, sender>> \in DOMAIN ep.inbound_nonce
  THEN ep.inbound_nonce[<<src_eid, sender>>] ELSE 0

\* the guid the Endpoint gives a message: a digest of its path and nonce
EndpointGuid(src_eid, sender, nonce) ==
  <<9>> \o U32BE(src_eid) \o <<sender[32], nonce>> \o Repeat(0, 25)

endpoint_verify(ep, src_eid, sender, message) ==
  LET nonce == NonceOf(ep, src_eid, sender) + 1
      path == <<src_eid, sender>>
  IN [payloads |-> ep.payloads \cup
                     {[src_eid |-> src_eid, sender |-> sender, nonce |-> nonce,
                       guid |-> EndpointGuid(src_eid, sender, nonce),
                       message |-> message]},
      inbound_nonce |-> [p \in DOMAIN ep.inbound_nonce \cup {path} |->
                           IF p = path THEN nonce ELSE ep.inbound_nonce[p]]]

\* Endpoint::clear
endpoint_clear(ep, params) ==
  IF params \in ep.payloads
  THEN Okv([ep EXCEPT !.payloads = @ \ {params}])
  ELSE [ok |-> FALSE, val |-> ep, err |-> "EndpointClearFailed"]

\* oapp::options::assert_type_3
assert_type_3(options) == Len(options) >= 2 /\ options[1] = 0 /\ options[2] = 3

(***************************************************************************)
(* state.rs: the room of the accounts.  Store::SIZE is 8 bytes, the size   *)
(* of the struct in memory (160) and 256 bytes for the string;             *)
(* PeerConfig::SIZE is 8 bytes and the size of the struct in memory (88).  *)
(* On exit every `mut` account is serialised into its buffer, and a record *)
(* that has outgrown it fails the call with AccountDidNotSerialize.  A     *)
(* stored request holds its id, requester and seed, num_words, pool_id,    *)
(* 32 bytes of callback data, a timestamp and a flag.                      *)
(***************************************************************************)
Store_SIZE == 8 + 160 + 256

PeerConfig_SIZE == 8 + 88

VrfRequestLen == 32 + 32 + 32 + 4 + 1 + 32 + 8 + 1

\* discriminator, admin, bump, endpoint_program, string, oracle_pubkey (None)
\* and the vector of requests
StoreLen(store) ==
  8 + 32 + 1 + 32 + (4 + Len(store.string)) + 1
    + (4 + VrfRequestLen * Len(store.pending_requests))

PeerConfigLen(peer) ==
  8 + 32 + (4 + Len(peer.enforced_options.send))
    + (4 + Len(peer.enforced_options.send_and_call)) + 1

(***************************************************************************)
(* init_store                                                              *)
(***************************************************************************)
init_store(w, is_signer, admin, endpoint) ==
  IF ~is_signer THEN Ret(w, "AccountNotSigner", <<>>)
  ELSE IF w.store.initialized THEN Ret(w, "AccountAlreadyInUse", <<>>)
  ELSE Ret([w EXCEPT !.store =
              [initialized |-> TRUE, admin |-> admin, endpoint_program |-> endpoint,
               string |-> NothingReceivedYet, pending_requests |-> <<>>]],
           "Ok", <<>>)

(***************************************************************************)
(* set_peer_config                                                         *)
(***************************************************************************)
set_peer_config(w, is_signer, admin, remote_eid, config) ==
  LET peer == IF remote_eid \in DOMAIN w.peers THEN w.peers[remote_eid]
              ELSE DefaultPeerConfig
      WithPeer(p) == [w EXCEPT !.peers =
                        [e \in DOMAIN @ \cup {remote_eid} |->
                           IF e = remote_eid THEN p ELSE @[e]]]
  IN IF ~is_signer THEN Ret(w, "AccountNotSigner", <<>>)
     ELSE IF ~w.store.initialized THEN Ret(w, "AccountNotInitialized", <<>>)
     ELSE IF admin # w.store.admin THEN Ret(w, "ConstraintAddress", <<>>)
     ELSE IF config.kind = "PeerAddress"
     THEN Ret(WithPeer([peer EXCEPT !.peer_address = config.peer_address]), "Ok", <<>>)
     ELSE IF ~assert_type_3(config.send) \/ ~assert_type_3(config.send_and_call)
     THEN Ret(w, "InvalidOptions", <<>>)
     ELSE IF PeerConfigLen([peer EXCEPT !.enforced_options =
                              [send |-> config.send,
                               send_and_call |-> config.send_and_call]])
               > PeerConfig_SIZE
     THEN Ret(w, "AccountDidNotSerialize", <<>>)
     ELSE Ret(WithPeer([peer EXCEPT !.enforced_options =
                          [send |-> config.send,
                           send_and_call |-> config.send_and_call]]),
              "Ok", <<>>)

(***************************************************************************)
(* set_delegate                                                            *)
(***************************************************************************)
set_delegate(w, is_signer, admin, delegate) ==
  IF ~is_signer THEN Ret(w, "AccountNotSigner", <<>>)
  ELSE IF ~w.store.initialized THEN Ret(w, "AccountNotInitialized", <<>>)
  ELSE IF admin # w.store.admin THEN Ret(w, "UnauthorizedAccess", <<>>)
  ELSE Ret([w EXCEPT !.store.admin = delegate], "Ok", <<>>)

(***************************************************************************)
(* lz_receive                                                              *)
(***************************************************************************)
\* a faulty call of the clear: its error is dropped
clear_failed_ignored(cleared) == FALSE

\* the ? of line 57
clear_failed(cleared) == ~cleared.ok

\* a faulty constraint: any sender passes
sender_is_peer_any(params, peer) == TRUE

\* the constraint of line 28
sender_is_peer(params, peer) == params.sender = peer.peer_address

\* the index of the first unfulfilled pending request with this id, or 0
FirstUnfulfilled(pending_requests, request_id) ==
  LET hits == {i \in DOMAIN pending_requests :
                 /\ pending_requests[i].request_id = request_id
                 /\ ~pending_requests[i].fulfilled}
  IN IF hits = {} THEN 0 ELSE CHOOSE i \in hits : \A j \in hits : i <= j

\* lines 59-153: the dispatch on the decoded message type.  The result is the
\* store, or the error returned.
lz_dispatch(store, now, params) ==
  LET type == decode_message_type(params.message)
  IN IF type.ok /\ type.val = "VrfRequest"
     THEN LET vrf_request == decode_vrf_request(params.message)
          IN IF ~vrf_request.ok THEN Errv("InvalidMessageFormat")
             ELSE IF Len(store.pending_requests) < MAX_VRF_REQUESTS
             THEN Okv([store EXCEPT !.pending_requests = Append(@,
                         [request_id |-> params.guid,
                          requester |-> vrf_request.val.requester,
                          seed |-> vrf_request.val.seed,
                          num_words |-> vrf_request.val.num_words,
                          pool_id |-> vrf_request.val.pool_id,
                          callback_data |-> vrf_request.val.callback_data,
                          timestamp |-> now,
                          fulfilled |-> FALSE])])
             ELSE Errv("TooManyPendingRequests")
     ELSE IF type.ok /\ type.val = "VrfFulfillment"
     THEN LET vrf_fulfillment == decode_vrf_fulfillment(params.message)
          IN IF ~vrf_fulfillment.ok THEN Errv("InvalidMessageFormat")
             ELSE LET i == FirstUnfulfilled(store.pending_requests,
                                            vrf_fulfillment.val.request_id)
                  IN IF i = 0 THEN Okv(store)
                     ELSE Okv([store EXCEPT !.pending_requests[i].fulfilled = TRUE])
     ELSE LET string_value == decode(params.message)
          IN IF ~string_value.ok THEN Errv("InvalidMessageFormat")
             ELSE Okv([store EXCEPT !.string = string_value.val])

\* The accounts are checked first (store, then peer: loaded, seeds,
\* constraint), then the handler runs.  The result holds the accounts as the
\* call leaves them when it returns: on a failure after the clear the payload
\* is cleared and the store is as it was.
lz_receive(w, now, peer_acct, clear_accounts, params) ==
  IF ~w.store.initialized THEN Ret(w, "AccountNotInitialized", <<>>)
  ELSE IF peer_acct \notin DOMAIN w.peers THEN Ret(w, "AccountNotInitialized", <<>>)
  ELSE IF peer_acct # params.src_eid THEN Ret(w, "ConstraintSeeds", <<>>)
  ELSE IF ~sender_is_peer(params, w.peers[peer_acct]) THEN Ret(w, "InvalidSender", <<>>)
  ELSE IF ~clear_accounts THEN Ret(w, "ProgramFailedToComplete", <<>>)
  ELSE LET cleared == endpoint_clear(w.endpoint, params)
       IN IF clear_failed(cleared) THEN Ret(w, cleared.err, <<>>)
          ELSE LET w1 == [w EXCEPT !.endpoint = cleared.val]
                   store == lz_dispatch(w.store, now, params)
               IN IF ~store.ok THEN Ret(w1, store.err, <<>>)
                  ELSE IF StoreLen(store.val) > Store_SIZE
                  THEN Ret(w1, "AccountDidNotSerialize", <<>>)
                  ELSE Ret([w1 EXCEPT !.store = store.val], "Ok", <<>>)

(***************************************************************************)
(* fulfill_vrf: the store has no oracle key (no instruction sets one), so  *)
(* any signer passes.  The fulfilment goes out through the Endpoint, whose *)
(* accounts the caller passes; a send without them fails.                  *)
(***************************************************************************)
fulfill_vrf(w, is_signer, peer_acct, send_accounts, params) ==
  IF ~is_signer THEN Ret(w, "AccountNotSigner", <<>>)
  ELSE IF ~w.store.initialized THEN Ret(w, "AccountNotInitialized", <<>>)
  ELSE IF peer_acct \notin DOMAIN w.peers THEN Ret(w, "AccountNotInitialized", <<>>)
  ELSE IF peer_acct # params.dst_eid THEN Ret(w, "ConstraintSeeds", <<>>)
  ELSE IF FirstUnfulfilled(w.store.pending_requests, params.request_id) = 0
  THEN Ret(w, "RequestNotFound", <<>>)
  ELSE IF ~send_accounts THEN Ret(w, "ProgramFailedToComplete", <<>>)
  ELSE Ret([w EXCEPT !.store.pending_requests[
                        FirstUnfulfilled(w.store.pending_requests, params.request_id)
                      ].fulfilled = TRUE],
           "Ok", <<>>)

(***************************************************************************)
(* The calls made to the OApp.                                             *)
(***************************************************************************)
MaxLzMsgs == 2

PeerA == EvmAddress(171)
PeerB == EvmAddress(205)
LzSenders == {PeerA, FlipBit(PeerA)}

\* "hi"
Hi == <<104, 105>>

SomeVrfRequest == [requester |-> EvmAddress(1), seed |-> Repeat(7, 32), callback_data |-> Repeat(5, 32), num_words |-> 1, pool_id |-> 1]

\* a string one byte longer than a store without requests has room for
LongString == Repeat(97, Store_SIZE - StoreLen(NoStore) + 1)

\* the messages a remote chain sends: a string from the string encoder, a
\* string under a header that starts with a byte other than 0 and 1, one
\* too long for the store, a string that is not UTF-8, a VRF request and a
\* cut one, a VRF fulfilment for each pending request and for an unknown
\* one, and a cut one
LzMessages(w) ==
  {encode(Hi),
   <<2>> \o Tail(encode(Hi)),
   <<2>> \o Tail(encode(LongString)),
   <<2>> \o Tail(encode(<<255>>)),
   encode_vrf_request(SomeVrfRequest),
   Slice(encode_vrf_request(SomeVrfRequest), 0, 50),
   Slice(encode_vrf_fulfillment([request_id |-> Repeat(0, 32), randomness |-> Repeat(3, 64)]), 0, 40)}
  \cup {encode_vrf_fulfillment([request_id |-> id, randomness |-> Repeat(3, 64)]) :
          id \in {Repeat(0, 32)} \cup
                 {w.store.pending_requests[i].request_id : i \in DOMAIN w.store.pending_requests}}

\* a failed instruction fails its transaction, and the runtime then discards
\* every account change made in it, those of the Endpoint included
Atomic(w, r) == IF r.err = "Ok" THEN r.w ELSE w

LzCommit(w) ==
  /\ lz' = w
  /\ UNCHANGED <<coordinator, anchor, testprog, codec, legacy>>

LzInitStore ==
  \E is_signer \in BOOLEAN, admin \in Users :
    LzCommit(Atomic(lz, init_store(lz, is_signer, admin, "endpoint")))

\* options of type 3, one byte longer than the peer account has room for
LongOptions == <<0, 3>> \o Repeat(0, PeerConfig_SIZE - PeerConfigLen(DefaultPeerConfig) - 4 + 1)

LzPeerConfigs ==
  {[kind |-> "PeerAddress", peer_address |-> a, send |-> <<>>, send_and_call |-> <<>>] :
     a \in {PeerA, PeerB}}
  \cup {[kind |-> "EnforcedOptions", peer_address |-> <<>>, send |-> o, send_and_call |-> <<0, 3>>] :
          o \in {<<0, 3>>, <<0, 1>>, LongOptions}}

LzSetPeerConfig ==
  \E is_signer \in BOOLEAN, admin \in Users, remote_eid \in Eids, config \in LzPeerConfigs :
    LzCommit(Atomic(lz, set_peer_config(lz, is_signer, admin, remote_eid, config)))

\* the remote chain sends a message and the Endpoint verifies it
LzEndpointVerify ==
  \E src_eid \in Eids, sender \in LzSenders, message \in LzMessages(lz) :
    /\ Cardinality(lz.endpoint.payloads) + Cardinality(lz.received) < MaxLzMsgs
    /\ NonceOf(lz.endpoint, src_eid, sender) < MaxLzMsgs
    /\ LzCommit([lz EXCEPT !.endpoint = endpoint_verify(@, src_eid, sender, message)])

\* the parameters of lz_receive: those of a payload the Endpoint holds or of
\* a message received before, and the same with another sender, endpoint id,
\* nonce, guid or message
LzParams(w) ==
  LET known == w.endpoint.payloads \cup w.received
  IN known
     \cup {[p EXCEPT !.sender = s] : p \in known, s \in LzSenders \cup {PeerB}}
     \cup {[p EXCEPT !.src_eid = e] : p \in known, e \in Eids}
     \cup {[p EXCEPT !.nonce = @ + 1] : p \in known}
     \cup {[p EXCEPT !.guid = EndpointGuid(p.src_eid, p.sender, p.nonce + 1)] : p \in known}
     \cup {[p EXCEPT !.message = m] : p \in known, m \in LzMessages(w)}

\* the executor passes the peer account of the source endpoint and the
\* accounts of the clear; a caller may pass another peer account or no
\* accounts for the clear
LzReceiveInputs(w) ==
  {[peer_acct |-> p.src_eid, clear_accounts |-> TRUE, params |-> p] : p \in LzParams(w)}
  \cup {[peer_acct |-> e, clear_accounts |-> TRUE, params |-> p] :
          e \in Eids, p \in w.endpoint.payloads}
  \cup {[peer_acct |-> p.src_eid, clear_accounts |-> FALSE, params |-> p] :
          p \in w.endpoint.payloads}

LzReceiveCall(w, now, a) == lz_receive(w, now, a.peer_acct, a.clear_accounts, a.params)

LzReceive ==
  \E a \in LzReceiveInputs(lz) :
    LET r == LzReceiveCall(lz, slot, a)
    IN LzCommit([Atomic(lz, r) EXCEPT
                   !.received = IF r.err = "Ok" THEN @ \cup {a.params} ELSE @])

LzSetDelegate ==
  \E is_signer \in BOOLEAN, admin \in Users, delegate \in Users :
    LzCommit(Atomic(lz, set_delegate(lz, is_signer, admin, delegate)))

\* the arguments of fulfill_vrf: the id of a stored request or of none, for
\* either endpoint id, with the peer account of that id or of the other
LzFulfillBase(d, id) ==
  [is_signer |-> TRUE, peer_acct |-> d, send_accounts |-> TRUE,
   params |-> [dst_eid |-> d, request_id |-> id, randomness |-> <<3>>,
               proof |-> <<>>, fee |-> 0]]

LzFulfillInputs(w) ==
  UNION {{LzFulfillBase(d, id),
          [LzFulfillBase(d, id) EXCEPT !.is_signer = FALSE],
          [LzFulfillBase(d, id) EXCEPT !.send_accounts = FALSE],
          [LzFulfillBase(d, id) EXCEPT !.peer_acct = ARBITRUM_SEPOLIA_EID]} :
           d \in {ETHEREUM_SEPOLIA_EID},
           id \in {Repeat(0, 32)} \cup
                  {w.store.pending_requests[i].request_id :
                     i \in DOMAIN w.store.pending_requests}}

LzFulfillCall(w, a) == fulfill_vrf(w, a.is_signer, a.peer_acct, a.send_accounts, a.params)

LzFulfillVrf ==
  \E a \in LzFulfillInputs(lz) : LzCommit(Atomic(lz, LzFulfillCall(lz, a)))

(***************************************************************************)
(* kamui-layerzero/src/msg_codec.rs: the VRF payloads of that crate carry  *)
(* num_words as one byte, callback_data and proof as vectors behind a      *)
(* length of 4 bytes, and the randomness as a vector of u64.               *)
(***************************************************************************)
\* u64::to_be_bytes, for the values below 2^31
U64BE(n) == Repeat(0, 4) \o U32BE(n)

RECURSIVE EachU64BE(_)
EachU64BE(values) ==
  IF values = <<>> THEN <<>> ELSE U64BE(Head(values)) \o EachU64BE(Tail(values))

kamui_layerzero_encode_vrf_request(payload) ==
  <<0>> \o payload.requester \o payload.seed \o <<payload.num_words>>
        \o U32BE(Len(payload.callback_data)) \o payload.callback_data

kamui_layerzero_encode_vrf_fulfillment(payload) ==
  <<1>> \o payload.request_id \o U32BE(Len(payload.randomness))
        \o EachU64BE(payload.randomness) \o U32BE(Len(payload.proof)) \o payload.proof

kamui_layerzero_decode_vrf_request(message) ==
  IF Len(message) < 70 THEN Errv("InvalidLength")
  ELSE LET callback_len == FromU32BE(Slice(message, 66, 70))
       IN IF 70 + callback_len > Len(message) THEN Errv("BodyTooShort")
          ELSE Okv([msg_type |-> "VrfRequest",
                    requester |-> Slice(message, 1, 33),
                    seed |-> Slice(message, 33, 65),
                    num_words |-> message[66],
                    callback_data |-> Slice(message, 70, 70 + callback_len)])

(***************************************************************************)
(* The codec is a set of pure functions: a call of one of them is recorded *)
(* with its input and its output.                                          *)
(***************************************************************************)
NoCodecCall == [op |-> "none", input |-> <<>>, output |-> <<>>]

VrfRequestPayloads ==
  {[msg_type |-> "VrfRequest", requester |-> r, seed |-> s, callback_data |-> c,
    num_words |-> n, pool_id |-> q] :
     r \in {Repeat(17, 32), EvmAddress(1)}, s \in {Repeat(34, 32), Repeat(0, 32)},
     c \in {Repeat(51, 32), Repeat(0, 32)}, n \in {0, 1, 7, 256, 2147483647},
     q \in {0, 5, 255}}

VrfFulfillmentPayloads ==
  {[msg_type |-> "VrfFulfillment", request_id |-> i, randomness |-> x] :
     i \in {Repeat(0, 32), Repeat(9, 32)},
     x \in {Repeat(0, 64), Repeat(3, 64), Repeat(127, 64)}}

KamuiLayerzeroRequestPayloads ==
  {[msg_type |-> "VrfRequest", requester |-> Repeat(17, 32), seed |-> Repeat(34, 32),
    num_words |-> n, callback_data |-> c] :
     n \in {1, 10}, c \in {<<>>, <<1, 2, 3>>, Repeat(51, 32)}}

KamuiLayerzeroFulfillmentPayloads ==
  {[msg_type |-> "VrfFulfillment", request_id |-> Repeat(9, 32), randomness |-> x,
    proof |-> pf] :
     x \in {<<>>, <<1>>, <<1, 2>>}, pf \in {<<>>, <<9, 9>>}}

\* the buffers handed to the decoders: encoded payloads, the same cut short,
\* with one more byte, and with another first byte
DecodeBuffers ==
  LET whole == {encode_vrf_request(p) : p \in {q \in VrfRequestPayloads : q.num_words = 7}}
               \cup {encode_vrf_fulfillment(f) : f \in VrfFulfillmentPayloads}
  IN whole
     \cup UNION {{Slice(b, 0, n) : n \in {m \in {0, 1, 50, 96, 97, 101} : m <= Len(b)}} :
                    b \in whole}
     \cup {b \o <<0>> : b \in whole}
     \cup {[b EXCEPT ![1] = t] : b \in whole, t \in {0, 1, 2}}

CodecCalls ==
  {[op |-> "encode_vrf_request", input |-> p] : p \in VrfRequestPayloads}
  \cup {[op |-> "encode_vrf_fulfillment", input |-> f] : f \in VrfFulfillmentPayloads}
  \cup {[op |-> o, input |-> b] :
          o \in {"decode_vrf_request", "decode_vrf_fulfillment", "decode_message_type",
                 "kamui_layerzero_decode_vrf_request"},
          b \in DecodeBuffers}
  \cup {[op |-> "kamui_layerzero_encode_vrf_request", input |-> p] :
          p \in KamuiLayerzeroRequestPayloads}
  \cup {[op |-> "kamui_layerzero_encode_vrf_fulfillment", input |-> f] :
          f \in KamuiLayerzeroFulfillmentPayloads}

CodecApply(op, input) ==
  CASE op = "encode_vrf_request" -> Okv(encode_vrf_request(input))
    [] op = "encode_vrf_fulfillment" -> Okv(encode_vrf_fulfillment(input))
    [] op = "decode_vrf_request" -> decode_vrf_request(input)
    [] op = "decode_vrf_fulfillment" -> decode_vrf_fulfillment(input)
    [] op = "decode_message_type" -> decode_message_type(input)
    [] op = "kamui_layerzero_decode_vrf_request" -> kamui_layerzero_decode_vrf_request(input)
    [] op = "kamui_layerzero_encode_vrf_request" -> Okv(kamui_layerzero_encode_vrf_request(input))
    [] op = "kamui_layerzero_encode_vrf_fulfillment" -> Okv(kamui_layerzero_encode_vrf_fulfillment(input))

CodecCall ==
  \E c \in CodecCalls :
    /\ codec' = [op |-> c.op, input |-> c.input, output |-> CodecApply(c.op, c.input)]
    /\ UNCHANGED <<coordinator, anchor, testprog, lz, legacy>>

(***************************************************************************)
(* Oracle rotation and reputation.                                         *)
(* processor.rs: process_rotate_oracles, process_update_oracle_reputation. *)
(* The signer of process_rotate_oracles must sign; its key is not read.    *)
(* Neither handler reads the address or the owner of an account it is      *)
(* given.                                                                  *)
(***************************************************************************)
process_rotate_oracles(w, now, is_signer, registry_account) ==
  IF ~is_signer THEN Ret(w, "MissingRequiredSignature", <<>>)
  ELSE IF ~registry_account_data(w, registry_account).initialized
  THEN Ret(w, "RegistryNotInitialized", <<>>)
  ELSE
    LET reg == registry_account_data(w, registry_account)
    IN IF try_from_slice(reg.data_len, RegistryLen(reg)) # "Ok"
       THEN Ret(w, try_from_slice(reg.data_len, RegistryLen(reg)), <<>>)
       ELSE IF now < AddWide(reg.last_rotation, reg.rotation_frequency)
       THEN Ret(w, "RotationNotDue", <<>>)
       ELSE Ret(write_registry(w, registry_account, [reg EXCEPT !.last_rotation = now]),
                "Ok",
                <<[type |-> "OraclesRotated", registry |-> registry_account,
                   active_count |-> reg.oracle_count]>>)

\* (oracle.fulfillment_count * 100) / total_fulfillments, 0 without reports
success_rate(fulfillment_count, total_fulfillments) == IF total_fulfillments > 0 THEN (fulfillment_count * 100) \div total_fulfillments ELSE 0

\* if *signer.key != registry.admin { return Err(InvalidAdmin) }
signer_is_admin(signer, reg) == signer = reg.admin

process_update_oracle_reputation(w, now, is_signer, signer, oracle_account, registry_account, oracle_authority, successful_fulfillments, failed_fulfillments) ==
  IF ~is_signer THEN Ret(w, "MissingRequiredSignature", <<>>)
  ELSE IF ~registry_account_data(w, registry_account).initialized
  THEN Ret(w, "RegistryNotInitialized", <<>>)
  ELSE IF try_from_slice(registry_account_data(w, registry_account).data_len,
                         RegistryLen(registry_account_data(w, registry_account))) # "Ok"
  THEN Ret(w, try_from_slice(registry_account_data(w, registry_account).data_len,
                             RegistryLen(registry_account_data(w, registry_account))), <<>>)
  ELSE IF ~signer_is_admin(signer, registry_account_data(w, registry_account))
  THEN Ret(w, "InvalidAdmin", <<>>)
  ELSE IF ~is_oracle_account(w, oracle_account)
  THEN Ret(w, "InvalidAccountData", <<>>)
  ELSE IF try_from_slice(oracle_account_data(w, oracle_account).data_len, OracleLen) # "Ok"
  THEN Ret(w, try_from_slice(oracle_account_data(w, oracle_account).data_len, OracleLen), <<>>)
  ELSE IF oracle_account_data(w, oracle_account).authority # oracle_authority
  THEN Ret(w, "InvalidOracleAuthority", <<>>)
  ELSE
    LET oracle == oracle_account_data(w, oracle_account)
        fulfillment_count == AddWide(oracle.fulfillment_count, successful_fulfillments)
        failure_count == AddWide(oracle.failure_count, failed_fulfillments)
        total_fulfillments == AddWide(fulfillment_count, failure_count)
        rate == success_rate(fulfillment_count, total_fulfillments)
        reputation == IF rate < 10000 THEN rate ELSE 10000
    IN Ret(write_oracle(w, oracle_account,
                        [oracle EXCEPT !.fulfillment_count = fulfillment_count,
                                       !.failure_count = failure_count,
                                       !.reputation = reputation,
                                       !.last_active = now]),
           "Ok",
           <<[type |-> "OracleReputationUpdated", authority |-> oracle.authority,
              oracle_account |-> oracle_account, reputation |-> reputation]>>)

(***************************************************************************)
(* The anchor program: initialize_oracle_registry and rotate_oracles, with *)
(* the account structs InitializeOracleRegistry and RotateOracles.         *)
(***************************************************************************)
kamui_vrf_initialize_oracle_registry(w, now, is_signer, admin, min_stake, rotation_frequency) ==
  IF ~is_signer THEN Ret(w, "AccountNotSigner", <<>>)
  ELSE IF w.reg.initialized THEN Ret(w, "AccountAlreadyInUse", <<>>)
  ELSE Ret([w EXCEPT !.reg =
              [initialized |-> TRUE, admin |-> admin, oracle_count |-> 0,
               min_stake |-> min_stake, rotation_frequency |-> rotation_frequency,
               last_rotation |-> now, oracles |-> <<>>]],
           "Ok", <<>>)

\* state.rs (anchor): the room of the registry account, for 50 oracles
OracleRegistry_INIT_SPACE == 32 + 2 + 8 + 8 + 8 + (4 + 50 * 32)

\* register_oracle with the accounts RegisterOracle: the registry account is
\* loaded, then oracle_config is created by `init` at the address derived
\* from the authority
kamui_vrf_register_oracle(w, now, is_signer, authority, vrf_key, stake_amount) ==
  IF ~is_signer THEN Ret(w, "AccountNotSigner", <<>>)
  ELSE IF ~w.reg.initialized THEN Ret(w, "AccountNotInitialized", <<>>)
  ELSE IF authority \in DOMAIN w.orc THEN Ret(w, "AccountAlreadyInUse", <<>>)
  ELSE IF stake_amount < w.reg.min_stake THEN Ret(w, "InsufficientStake", <<>>)
  ELSE
    LET w1 == [w EXCEPT !.orc = @ @@ (authority :>
                 [authority |-> authority, vrf_key |-> vrf_key,
                  stake_amount |-> stake_amount, reputation |-> 0,
                  last_active |-> now, is_active |-> TRUE,
                  fulfillment_count |-> 0, failure_count |-> 0])]
        w2 == IF ~Contains(w.reg.oracles, authority)
              THEN [w1 EXCEPT !.reg.oracles = Append(@, authority),
                              !.reg.oracle_count = @ + 1]
              ELSE w1
    IN IF RegistryLen(w2.reg) > OracleRegistry_INIT_SPACE
       THEN Ret(w, "AccountDidNotSerialize", <<>>)
       ELSE Ret(w2, "Ok", <<>>)

\* constraint = registry.admin == admin.key()
\*              || registry.last_rotation + registry.rotation_frequency <= slot
kamui_vrf_rotate_oracles(w, now, is_signer, admin) ==
  IF ~is_signer THEN Ret(w, "AccountNotSigner", <<>>)
  ELSE IF ~w.reg.initialized THEN Ret(w, "AccountNotInitialized", <<>>)
  ELSE IF ~(\/ w.reg.admin = admin
            \/ w.reg.last_rotation + w.reg.rotation_frequency <= now)
  THEN Ret(w, "ConstraintRaw", <<>>)
  ELSE Ret([w EXCEPT !.reg.last_rotation = now], "Ok", <<>>)

(***************************************************************************)
(* The oracle instructions as actions.  The clock moves by one slot, by    *)
(* one slot less than the rotation frequency, or by the frequency.         *)
(***************************************************************************)
MaxOracleTicks == 2
SlotSteps == {1, ORACLE_ROTATION_FREQUENCY - 1, ORACLE_ROTATION_FREQUENCY}
Signers == {Admin, "alice"}

OracleTick ==
  /\ ticks < MaxOracleTicks
  /\ \E d \in SlotSteps : slot' = slot + d
  /\ ticks' = ticks + 1
  /\ UNCHANGED <<subscriptions, pools, requests, results, registry, oracles,
                 anchor, testprog, lz, codec, legacy>>

\* the arguments of initialize_oracle_registry: the admin with the registry
\* address, and each argument off in turn
RegistryBase ==
  [is_signer |-> TRUE, admin |-> Admin, registry_ok |-> TRUE, min_stake |-> 1,
   rotation_frequency |-> ORACLE_ROTATION_FREQUENCY]

RegistryInputs ==
  {RegistryBase, [RegistryBase EXCEPT !.is_signer = FALSE],
   [RegistryBase EXCEPT !.registry_ok = FALSE],
   [RegistryBase EXCEPT !.rotation_frequency = 0],
   [RegistryBase EXCEPT !.admin = "alice"]}

RegistryCall(w, now, a) ==
  process_initialize_oracle_registry(w, now, a.is_signer, a.admin, a.registry_ok,
                                     a.min_stake, a.rotation_frequency)

InitializeOracleRegistry == \E a \in RegistryInputs : Commit(RegistryCall(World, slot, a))

\* the registry accounts a caller can pass: the registry of the program, a
\* registry of another program and an account that holds no registry
RegistryAccts == {RegistryAddress, "forged_registry", NoAccount}

RotateInputs ==
  {[is_signer |-> sg, signer |-> s, registry_account |-> ra] :
     sg \in BOOLEAN, s \in Signers, ra \in RegistryAccts}

RotateCall(w, now, a) == process_rotate_oracles(w, now, a.is_signer, a.registry_account)

RotateOracles == \E a \in RotateInputs : Commit(RotateCall(World, slot, a))

\* the arguments of update_oracle_reputation: the admin reporting on either
\* oracle, and each argument off in turn
ReputationBase ==
  [is_signer |-> TRUE, signer |-> Admin, oracle_account |-> "o1",
   registry_account |-> RegistryAddress, oracle_authority |-> "o1",
   successful_fulfillments |-> 1, failed_fulfillments |-> 0]

\* scenario E6: the admin of a registry reports on an oracle of stake
\* min_stake + 1 that has no report yet
E6_Report(successes, failures) ==
  [ReputationBase EXCEPT !.signer = "alice", !.registry_account = "forged_registry",
                         !.oracle_account = "forged_oracle",
                         !.successful_fulfillments = successes,
                         !.failed_fulfillments = failures]

ReputationInputs ==
  {[ReputationBase EXCEPT !.oracle_account = o, !.oracle_authority = o,
                          !.successful_fulfillments = c[1],
                          !.failed_fulfillments = c[2]] :
     o \in {"o1", "o2"}, c \in {<<1, 0>>, <<0, 1>>}}
  \cup {[ReputationBase EXCEPT !.signer = s, !.oracle_account = o,
                               !.oracle_authority = o] :
          s \in {"alice", "o1", "o2"}, o \in {"o1", "o2"}}
  \cup {[ReputationBase EXCEPT !.signer = s, !.registry_account = ra,
                               !.oracle_account = o,
                               !.successful_fulfillments = c] :
          s \in Signers, ra \in RegistryAccts, o \in {"o1", "forged_oracle"},
          c \in {0, 1}}
  \cup {E6_Report(9, 1), E6_Report(0, 9)}
  \cup {[ReputationBase EXCEPT !.is_signer = FALSE],
        [ReputationBase EXCEPT !.oracle_account = NoAccount],
        [ReputationBase EXCEPT !.oracle_authority = "o2"]}

ReputationCall(w, now, a) ==
  process_update_oracle_reputation(
    w, now, a.is_signer, a.signer, a.oracle_account, a.registry_account,
    a.oracle_authority, a.successful_fulfillments, a.failed_fulfillments)

UpdateOracleReputation ==
  \E a \in ReputationInputs : Commit(ReputationCall(World, slot, a))

AnchorRegistryInputs ==
  {[is_signer |-> sg, admin |-> Admin, min_stake |-> 1,
    rotation_frequency |-> ORACLE_ROTATION_FREQUENCY] : sg \in BOOLEAN}

AnchorRegistryCall(w, now, a) ==
  kamui_vrf_initialize_oracle_registry(
    w, now, a.is_signer, a.admin, a.min_stake, a.rotation_frequency)

AnchorInitializeOracleRegistry ==
  \E a \in AnchorRegistryInputs : AnchorCommit(AnchorRegistryCall(anchor, slot, a))

AnchorRotateInputs == {[is_signer |-> sg, admin |-> ad] : sg \in BOOLEAN, ad \in Signers}

AnchorRotateCall(w, now, a) == kamui_vrf_rotate_oracles(w, now, a.is_signer, a.admin)

AnchorRotateOracles ==
  \E a \in AnchorRotateInputs : AnchorCommit(AnchorRotateCall(anchor, slot, a))

(***************************************************************************)
(* Registration and deactivation as actions of the registry.               *)
(***************************************************************************)
Authorities == {"o1", "o2", "o3"}
VrfKeyOf(au) == IF au = "o1" THEN "pk1" ELSE IF au = "o2" THEN "pk2" ELSE "pk3"

\* stake_amount = min_stake + 1, and a stake below min_stake, with the
\* registry of the program, a registry of another program or no registry
RegisterInputs ==
  {[is_signer |-> TRUE, authority |-> au, oracle_account |-> au,
    registry_account |-> ra,
    vrf_key |-> VrfKeyOf(au), stake_amount |-> RegistryBase.min_stake + 1] :
     au \in Authorities, ra \in RegistryAccts}
  \cup {[is_signer |-> FALSE, authority |-> "o3", oracle_account |-> "o3",
         registry_account |-> RegistryAddress,
         vrf_key |-> VrfKeyOf("o3"), stake_amount |-> RegistryBase.min_stake + 1],
        [is_signer |-> TRUE, authority |-> "o3", oracle_account |-> "o1",
         registry_account |-> RegistryAddress,
         vrf_key |-> VrfKeyOf("o3"), stake_amount |-> RegistryBase.min_stake + 1]}
  \cup {[is_signer |-> TRUE, authority |-> "o3", oracle_account |-> "o3",
          registry_account |-> ra,
          vrf_key |-> VrfKeyOf("o3"), stake_amount |-> RegistryBase.min_stake - 1] :
           ra \in RegistryAccts}

RegisterCall(w, now, a) ==
  process_register_oracle(w, now, a.is_signer, a.authority, a.oracle_account,
                          a.registry_account, a.vrf_key, a.stake_amount)

RegisterOracle == \E a \in RegisterInputs : Commit(RegisterCall(World, slot, a))

DeactivateInputs ==
  {[is_signer |-> sg, signer |-> s, oracle_account |-> o, registry_account |-> ra] :
     sg \in BOOLEAN, s \in Authorities \cup Signers,
     o \in Authorities \cup {"forged_oracle", NoAccount}, ra \in RegistryAccts}

DeactivateCall(w, a) ==
  process_deactivate_oracle(w, a.is_signer, a.signer, a.oracle_account, a.registry_account)

DeactivateOracle == \E a \in DeactivateInputs : Commit(DeactivateCall(World, a))

AnchorRegisterInputs ==
  {[is_signer |-> a.is_signer, authority |-> a.authority, vrf_key |-> a.vrf_key,
    stake_amount |-> a.stake_amount] : a \in RegisterInputs}

AnchorRegisterCall(w, now, a) ==
  kamui_vrf_register_oracle(w, now, a.is_signer, a.authority, a.vrf_key, a.stake_amount)

AnchorRegisterOracle ==
  \E a \in AnchorRegisterInputs : AnchorCommit(AnchorRegisterCall(anchor, slot, a))

(***************************************************************************)
(* A subscription of the anchor program with the largest request limit:    *)
(* its owner funds it, opens a pool and makes one request after another,   *)
(* and the first of them are fulfilled.                                    *)
(***************************************************************************)
MaxHeld == 17
MaxSettled == 3

LargeCreateInputs ==
  {[CreateBase("s1") EXCEPT !.max_requests = m] :
     m \in {MAX_REQUESTS_PER_SUBSCRIPTION, MAX_REQUESTS_PER_SUBSCRIPTION + 1}}

LargeCreateSubscription ==
  \E a \in LargeCreateInputs :
    AnchorCommit(kamui_vrf_create_enhanced_subscription(
                   anchor, a.is_signer, "alice", a.acct, a.min_balance,
                   a.confirmations, a.max_requests))

LargeFundSubscription ==
  /\ "s1" \in DOMAIN anchor.subs
  /\ anchor.subs["s1"].balance = 0
  /\ AnchorCommit(kamui_vrf_fund_subscription(anchor, TRUE, "s1", CreateBase("s1").min_balance))

\* a pool that admits as many requests as the subscription, and one that
\* admits none
LargePoolInputs ==
  {[PoolBase EXCEPT !.max_size = m] : m \in {0, MAX_REQUESTS_PER_SUBSCRIPTION}}

OpenLargePool ==
  \E a \in LargePoolInputs :
    AnchorCommit(kamui_vrf_initialize_request_pool(
                   anchor, slot, a.is_signer, a.owner, a.sub_acct, a.pool_acct,
                   a.pool_id, a.max_size))

RequestAgain ==
  /\ "s1" \in DOMAIN anchor.subs => Len(anchor.subs["s1"].request_keys) < MaxHeld
  /\ AnchorCommit(AnchorRequestCall(
                    anchor, slot,
                    [RequestBase EXCEPT !.request_account = FreshRequestAccount(anchor)]))

\* one of the first requests is fulfilled
SettleEarly ==
  \E ra \in DOMAIN anchor.reqs :
    /\ anchor.reqs[ra].request_index < MaxSettled
    /\ AnchorCommit(AnchorFulfillCall(anchor, slot, CallArgs(anchor, ra)))
(***************************************************************************)
(* The OApp under VRF traffic from one peer: the store is initialized, the *)
(* peer is set, and the remote chain sends VRF requests and the            *)
(* fulfilments of the requests the store holds, while the oracle fulfils   *)
(* stored requests with fulfill_vrf.                                       *)
(***************************************************************************)
MaxBacklogNonce == 5

BacklogInitStore ==
  /\ ~lz.store.initialized
  /\ LzCommit(Atomic(lz, init_store(lz, TRUE, Admin, "endpoint")))

BacklogSetPeer ==
  /\ ETHEREUM_SEPOLIA_EID \notin DOMAIN lz.peers
  /\ LzCommit(Atomic(lz, set_peer_config(lz, TRUE, Admin, ETHEREUM_SEPOLIA_EID,
                [kind |-> "PeerAddress", peer_address |-> PeerA,
                 send |-> <<>>, send_and_call |-> <<>>])))

\* the pending requests not marked fulfilled
Unfulfilled(store) ==
  {i \in DOMAIN store.pending_requests : ~store.pending_requests[i].fulfilled}

\* the remote chain sends a VRF request or the fulfilment of a request the
\* store holds open
BacklogMessages(w) ==
  {encode_vrf_request(SomeVrfRequest)}
  \cup {encode_vrf_fulfillment([request_id |-> w.store.pending_requests[i].request_id,
                                randomness |-> Repeat(3, 64)]) :
          i \in Unfulfilled(w.store)}

BacklogVerify ==
  \E message \in BacklogMessages(lz) :
    /\ ETHEREUM_SEPOLIA_EID \in DOMAIN lz.peers
    /\ Cardinality(lz.endpoint.payloads) < 2
    /\ NonceOf(lz.endpoint, ETHEREUM_SEPOLIA_EID, PeerA) < MaxBacklogNonce
    /\ LzCommit([lz EXCEPT !.endpoint =
                   endpoint_verify(@, ETHEREUM_SEPOLIA_EID, PeerA, message)])

\* the executor delivers the payloads the Endpoint holds
BacklogInputs(w) ==
  {[peer_acct |-> p.src_eid, clear_accounts |-> TRUE, params |-> p] :
     p \in w.endpoint.payloads}

BacklogReceive ==
  \E a \in BacklogInputs(lz) :
    LzCommit(Atomic(lz, LzReceiveCall(lz, slot, a)))

\* the oracle fulfils a request the store holds open
BacklogFulfillInputs(w) ==
  {LzFulfillBase(ETHEREUM_SEPOLIA_EID, w.store.pending_requests[i].request_id) :
     i \in Unfulfilled(w.store)}

BacklogFulfillVrf ==
  \E a \in BacklogFulfillInputs(lz) : LzCommit(Atomic(lz, LzFulfillCall(lz, a)))
(***************************************************************************)
(* The first LayerZero program (kamui-program/programs/kamui-layerzero):   *)
(* an Endpoint account, one OApp account per owner with its trusted        *)
(* remotes and pending requests, and one nonce account per OApp, source    *)
(* chain and source address.  A failed instruction leaves every account    *)
(* as it was.  The Endpoint account and the event tracker are created      *)
(* together, at the addresses of their seeds under the canonical bump.     *)
(***************************************************************************)
SOLANA_CHAIN_ID == 0
ETHEREUM_CHAIN_ID == 1
MAX_TRUSTED_REMOTES == 20
MAX_PAYLOAD_SIZE == 10000
MAX_PENDING_REQUESTS == 100

\* the bump find_program_address yields for [ENDPOINT_AUTHORITY_SEED] under
\* the id of the program
ENDPOINT_AUTHORITY_BUMP == 251

NoEndpoint == [initialized |-> FALSE, authority |-> "default", authority_bump |-> 0, outbound_nonce |-> 0, collected_fees |-> 0]

NoLegacy == [endpoint |-> NoEndpoint, event_tracker |-> [next_event_id |-> 0], oapps |-> <<>>, nonces |-> <<>>, accepted |-> <<>>]

\* the 32 bytes of an account's key
KeyOf(account) == Repeat(IF account = "alice" THEN 65 ELSE 66, 32)

\* the nonce account of init_if_needed: the account found, or a new one
\* with every field zero
NonceAccountOf(w, path) ==
  IF path \in DOMAIN w.nonces THEN w.nonces[path]
  ELSE [src_chain_id |-> 0, src_address |-> Repeat(0, 32), inbound_nonce |-> 0]

WithNonceAccount(w, path, account) ==
  [w EXCEPT !.nonces = [p \in DOMAIN @ \cup {path} |-> IF p = path THEN account ELSE @[p]]]

\* the bump of the argument is stored as given
initialize_endpoint(w, is_signer, payer, authority_bump) ==
  IF ~is_signer THEN Ret(w, "AccountNotSigner", <<>>)
  ELSE IF w.endpoint.initialized THEN Ret(w, "AccountAlreadyInUse", <<>>)
  ELSE Ret([w EXCEPT !.endpoint =
              [initialized |-> TRUE, authority |-> payer,
               authority_bump |-> authority_bump, outbound_nonce |-> 0,
               collected_fees |-> 0],
            !.event_tracker = [next_event_id |-> 0]],
           "Ok", <<>>)

\* The OApp account is created by `init` with room for the record, 20
\* trusted remotes and 100 pending requests.  The records are declared
\* outside the sources at hand; their sizes in memory follow from the fields
\* the instructions use: a pending request holds three 32-byte arrays, a
\* u16, an i64 and a flag (112 bytes with alignment), a trusted remote a u16
\* and a 32-byte array (34 bytes).
OApp_SPACE ==
  8 + 136 + (MAX_TRUSTED_REMOTES * (2 + 32))
    + (MAX_PENDING_REQUESTS * (32 + 32 + 32 + 8 + 2 + 1 + 5))

\* `init` creates the account in an inner instruction, where the runtime
\* lets the data of an account grow by this many bytes at most
MAX_PERMITTED_DATA_INCREASE == 10 * 1024

\* The Endpoint account must lie at the address of its seed under the bump
\* it stores: a stored bump other than the canonical one derives another
\* address (or none), and the seeds constraint fails.  The creation of the
\* OApp account comes before the constraints of the other accounts.
register_oapp(w, is_signer, owner, emitter_chain_id, emitter_address) ==
  IF ~is_signer THEN Ret(w, "AccountNotSigner", <<>>)
  ELSE IF ~w.endpoint.initialized THEN Ret(w, "AccountNotInitialized", <<>>)
  ELSE IF owner \in DOMAIN w.oapps THEN Ret(w, "AccountAlreadyInUse", <<>>)
  ELSE IF OApp_SPACE > MAX_PERMITTED_DATA_INCREASE THEN Ret(w, "InvalidRealloc", <<>>)
  ELSE IF w.endpoint.authority_bump # ENDPOINT_AUTHORITY_BUMP
  THEN Ret(w, "ConstraintSeeds", <<>>)
  ELSE IF emitter_chain_id = SOLANA_CHAIN_ID /\ emitter_address # KeyOf(owner)
  THEN Ret(w, "Unauthorized", <<>>)
  ELSE Ret([w EXCEPT !.oapps =
              [o \in DOMAIN @ \cup {owner} |->
                 IF o = owner
                 THEN [owner |-> owner,
                       config |-> [default_gas_limit |-> 100000, default_fee |-> 0],
                       outbound_nonce |-> 0,
                       trusted_remotes |->
                         IF emitter_chain_id # SOLANA_CHAIN_ID
                         THEN <<[chain_id |-> emitter_chain_id, address |-> emitter_address]>>
                         ELSE <<>>,
                       pending_requests |-> <<>>]
                 ELSE @[o]]],
           "Ok", <<>>)

\* the index of the trusted remote of this chain, or 0
RemoteOfChain(trusted_remotes, chain_id) ==
  LET hits == {i \in DOMAIN trusted_remotes : trusted_remotes[i].chain_id = chain_id}
  IN IF hits = {} THEN 0 ELSE CHOOSE i \in hits : \A j \in hits : i <= j

set_trusted_remote(w, is_signer, owner, remote_chain_id, remote_address) ==
  IF ~is_signer THEN Ret(w, "AccountNotSigner", <<>>)
  ELSE IF owner \notin DOMAIN w.oapps THEN Ret(w, "AccountNotInitialized", <<>>)
  ELSE IF remote_chain_id = SOLANA_CHAIN_ID THEN Ret(w, "InvalidDestinationChain", <<>>)
  ELSE LET i == RemoteOfChain(w.oapps[owner].trusted_remotes, remote_chain_id)
       IN IF i # 0
          THEN Ret([w EXCEPT !.oapps[owner].trusted_remotes[i].address = remote_address],
                   "Ok", <<>>)
          ELSE IF Len(w.oapps[owner].trusted_remotes) >= MAX_TRUSTED_REMOTES
          THEN Ret(w, "InvalidRemoteAddress", <<>>)
          ELSE Ret([w EXCEPT !.oapps[owner].trusted_remotes =
                      Append(@, [chain_id |-> remote_chain_id, address |-> remote_address])],
                   "Ok", <<>>)

\* lines 57-59
source_found(oapp, src_chain_id, src_address) ==
  \E i \in DOMAIN oapp.trusted_remotes :
    /\ oapp.trusted_remotes[i].chain_id = src_chain_id
    /\ oapp.trusted_remotes[i].address = src_address

\* line 69: the nonce account is taken for new when its nonce is 0
nonce_account_is_new(w, path) == NonceAccountOf(w, path).inbound_nonce = 0

\* line 75
nonce_is_sequential(nonce, nonce_account) == nonce = nonce_account.inbound_nonce + 1

\* lines 65-81 of both handlers: the replay protection.  The result is the
\* nonce account, or the error returned.
check_nonce(w, path, src_chain_id, src_address, nonce) ==
  IF nonce_account_is_new(w, path)
  THEN Okv([src_chain_id |-> src_chain_id, src_address |-> src_address,
            inbound_nonce |-> nonce])
  ELSE IF ~nonce_is_sequential(nonce, NonceAccountOf(w, path))
  THEN Errv("InvalidNonce")
  ELSE Okv([NonceAccountOf(w, path) EXCEPT !.inbound_nonce = nonce])

\* the borsh form of the VrfRequestPayload with a vector of callback data
legacy_encode_vrf_request(payload) ==
  <<0>> \o payload.requester \o payload.seed \o <<payload.num_words>>
       \o <<Len(payload.callback_data) % 256, (Len(payload.callback_data) \div 256) % 256, 0, 0>>
       \o payload.callback_data

\* VrfRequestPayload::try_from_slice: every byte is consumed
legacy_try_from_slice(bytes) ==
  IF Len(bytes) < 70 THEN Errv("Io")
  ELSE IF bytes[1] > 2 THEN Errv("Io")
  ELSE IF Len(bytes) # 70 + bytes[67] + 256 * bytes[68] + 65536 * bytes[69] + 16777216 * bytes[70]
  THEN Errv("Io")
  ELSE Okv([requester |-> Slice(bytes, 1, 33), seed |-> Slice(bytes, 33, 65),
            num_words |-> bytes[66], callback_data |-> Slice(bytes, 70, Len(bytes))])

receive_message(w, now, is_signer, receiver, src_chain_id, src_address, nonce, payload) ==
  LET path == <<receiver, src_chain_id, src_address>>
      checked == check_nonce(w, path, src_chain_id, src_address, nonce)
  IN IF ~is_signer THEN Ret(w, "AccountNotSigner", <<>>)
     ELSE IF receiver \notin DOMAIN w.oapps THEN Ret(w, "AccountNotInitialized", <<>>)
     ELSE IF src_chain_id = SOLANA_CHAIN_ID THEN Ret(w, "InvalidSourceChain", <<>>)
     ELSE IF ~source_found(w.oapps[receiver], src_chain_id, src_address)
     THEN Ret(w, "RemoteNotTrusted", <<>>)
     ELSE IF ~checked.ok THEN Ret(w, checked.err, <<>>)
     ELSE IF payload = <<>> THEN Ret(w, "InvalidMessageType", <<>>)
     ELSE IF payload[1] # 0 THEN Ret(w, "InvalidMessageType", <<>>)
     ELSE LET vrf_payload == legacy_try_from_slice(Tail(payload))
          IN IF ~vrf_payload.ok THEN Ret(w, "InvalidMessageType", <<>>)
             ELSE Ret([WithNonceAccount(w, path, checked.val) EXCEPT
                         !.oapps[receiver].pending_requests = Append(@,
                            [request_id |-> [keccak |-> <<src_chain_id, src_address, nonce,
                                                          vrf_payload.val.seed>>],
                             src_chain_id |-> src_chain_id,
                             src_address |-> src_address,
                             timestamp |-> now,
                             seed |-> vrf_payload.val.seed,
                             fulfilled |-> FALSE])],
                      "Ok", <<>>)

receive_vrf_fulfillment(w, is_signer, receiver, src_chain_id, src_address, nonce, request_id, randomness) ==
  LET path == <<receiver, src_chain_id, src_address>>
      checked == check_nonce(w, path, src_chain_id, src_address, nonce)
  IN IF ~is_signer THEN Ret(w, "AccountNotSigner", <<>>)
     ELSE IF receiver \notin DOMAIN w.oapps THEN Ret(w, "AccountNotInitialized", <<>>)
     ELSE IF src_chain_id = SOLANA_CHAIN_ID THEN Ret(w, "InvalidSourceChain", <<>>)
     ELSE IF ~source_found(w.oapps[receiver], src_chain_id, src_address)
     THEN Ret(w, "RemoteNotTrusted", <<>>)
     ELSE IF ~checked.ok THEN Ret(w, checked.err, <<>>)
     ELSE Ret(WithNonceAccount(w, path, checked.val), "Ok", <<>>)

(***************************************************************************)
(* send_message: the fee goes to the Endpoint account, and the counters of *)
(* the OApp and of the event tracker advance.                              *)
(***************************************************************************)
send_message(w, is_signer, sender, dst_chain_id, payload, fee) ==
  IF ~is_signer THEN Ret(w, "AccountNotSigner", <<>>)
  ELSE IF sender \notin DOMAIN w.oapps \/ ~w.endpoint.initialized
  THEN Ret(w, "AccountNotInitialized", <<>>)
  ELSE IF dst_chain_id = SOLANA_CHAIN_ID THEN Ret(w, "InvalidDestinationChain", <<>>)
  ELSE IF RemoteOfChain(w.oapps[sender].trusted_remotes, dst_chain_id) = 0
  THEN Ret(w, "RemoteNotTrusted", <<>>)
  ELSE IF Len(payload) > MAX_PAYLOAD_SIZE THEN Ret(w, "InvalidAdapterParams", <<>>)
  ELSE IF fee < w.oapps[sender].config.default_fee THEN Ret(w, "InsufficientFee", <<>>)
  ELSE Ret([w EXCEPT !.endpoint.collected_fees = AddWide(@, fee),
                     !.oapps[sender].outbound_nonce = AddWide(@, 1),
                     !.event_tracker.next_event_id = AddWide(@, 1)],
           "Ok", <<>>)

\* the index of the first pending request with this id from this chain, or 0
RequestOfChain(pending_requests, request_id, chain_id) ==
  LET hits == {i \in DOMAIN pending_requests :
                 /\ pending_requests[i].request_id = request_id
                 /\ pending_requests[i].src_chain_id = chain_id}
  IN IF hits = {} THEN 0 ELSE CHOOSE i \in hits : \A j \in hits : i <= j

(***************************************************************************)
(* send_vrf_fulfillment                                                    *)
(***************************************************************************)
send_vrf_fulfillment(w, is_signer, sender, dst_chain_id, request_id, randomness, fee) ==
  IF ~is_signer THEN Ret(w, "AccountNotSigner", <<>>)
  ELSE IF sender \notin DOMAIN w.oapps \/ ~w.endpoint.initialized
  THEN Ret(w, "AccountNotInitialized", <<>>)
  ELSE IF dst_chain_id = SOLANA_CHAIN_ID THEN Ret(w, "InvalidDestinationChain", <<>>)
  ELSE IF RemoteOfChain(w.oapps[sender].trusted_remotes, dst_chain_id) = 0
  THEN Ret(w, "RemoteNotTrusted", <<>>)
  ELSE LET request_idx == RequestOfChain(w.oapps[sender].pending_requests,
                                         request_id, dst_chain_id)
       IN IF request_idx = 0 THEN Ret(w, "RequestNotFound", <<>>)
          ELSE IF w.oapps[sender].pending_requests[request_idx].fulfilled
          THEN Ret(w, "RequestAlreadyFulfilled", <<>>)
          ELSE IF fee < w.oapps[sender].config.default_fee
          THEN Ret(w, "InsufficientFee", <<>>)
          ELSE Ret([w EXCEPT
                      !.endpoint.collected_fees = AddWide(@, fee),
                      !.oapps[sender].outbound_nonce = AddWide(@, 1),
                      !.event_tracker.next_event_id = AddWide(@, 1),
                      !.oapps[sender].pending_requests[request_idx].fulfilled = TRUE],
                   "Ok", <<>>)

\* the index of the first unfulfilled pending request with this seed, or 0
RequestOfSeed(pending_requests, seed) ==
  LET hits == {i \in DOMAIN pending_requests :
                 /\ ~pending_requests[i].fulfilled
                 /\ pending_requests[i].seed = seed}
  IN IF hits = {} THEN 0 ELSE CHOOSE i \in hits : \A j \in hits : i <= j

(***************************************************************************)
(* process_vrf_request: the OApp asks the anchor program for randomness    *)
(* with the processor as the owner of the request, one confirmation and a  *)
(* callback gas limit of 100_000, and marks its pending request on         *)
(* success.  The result holds the accounts of both programs.               *)
(***************************************************************************)
process_vrf_request(w, vrf, now, is_signer, processor, sub_acct, pool_acct, request_account, seed, callback_data, num_words, pool_id) ==
  LET both == [legacy |-> w, vrf |-> vrf]
  IN IF ~is_signer THEN Ret(both, "AccountNotSigner", <<>>)
     ELSE IF processor \notin DOMAIN w.oapps \/ sub_acct \notin DOMAIN vrf.subs
     THEN Ret(both, "AccountNotInitialized", <<>>)
     ELSE LET request_found == RequestOfSeed(w.oapps[processor].pending_requests, seed)
              requested == kamui_vrf_request_randomness(
                             vrf, now, TRUE, processor, request_account, sub_acct,
                             pool_acct, seed, callback_data, num_words, 1, 100000,
                             pool_id)
          IN IF request_found = 0 THEN Ret(both, "RequestNotFound", <<>>)
             ELSE IF requested.err # "Ok" THEN Ret(both, requested.err, <<>>)
             ELSE Ret([legacy |-> [w EXCEPT !.oapps[processor].pending_requests[
                                              request_found].fulfilled = TRUE],
                       vrf |-> requested.w],
                      "Ok", <<>>)

(***************************************************************************)
(* The calls made to the first LayerZero program.  The nonces accepted on  *)
(* each path are recorded as the calls succeed.                            *)
(***************************************************************************)
MaxLegacyMsgs == 2

MaxLegacySends == 1

LegacyNonces == 0..2

LegacyCommit(w) ==
  /\ legacy' = w
  /\ UNCHANGED <<coordinator, anchor, testprog, lz, codec>>

LegacyInitializeEndpoint ==
  \E is_signer \in BOOLEAN, payer \in Users,
     authority_bump \in {ENDPOINT_AUTHORITY_BUMP, 255} :
    LegacyCommit(Atomic(legacy, initialize_endpoint(legacy, is_signer, payer,
                                                    authority_bump)))

LegacyRegisterOApp ==
  \E is_signer \in BOOLEAN, owner \in Users :
    \E e \in {<<ETHEREUM_CHAIN_ID, PeerA>>, <<SOLANA_CHAIN_ID, KeyOf(owner)>>,
              <<SOLANA_CHAIN_ID, PeerA>>} :
      LegacyCommit(Atomic(legacy, register_oapp(legacy, is_signer, owner, e[1], e[2])))

LegacySetTrustedRemote ==
  \E is_signer \in BOOLEAN, owner \in Users,
     remote_chain_id \in {SOLANA_CHAIN_ID, ETHEREUM_CHAIN_ID}, remote_address \in {PeerA, PeerB} :
    LegacyCommit(Atomic(legacy, set_trusted_remote(legacy, is_signer, owner,
                                                   remote_chain_id, remote_address)))

\* the nonces accepted so far on a path, in the order of their acceptance
AcceptedOn(w, path) == IF path \in DOMAIN w.accepted THEN w.accepted[path] ELSE <<>>

AcceptedCount(w) == Cardinality({pi \in (DOMAIN w.accepted) \X (1..MaxLegacyMsgs) : pi[2] <= Len(w.accepted[pi[1]])})

\* the accounts after a call, with the nonce recorded when the call succeeded
Recorded(w, r, path, nonce) ==
  IF r.err # "Ok" THEN w
  ELSE [r.w EXCEPT !.accepted =
          [p \in DOMAIN @ \cup {path} |->
             IF p = path THEN Append(AcceptedOn(w, path), nonce) ELSE @[p]]]

LegacySeed == Repeat(7, 32)

\* a VRF request, an empty payload, a fulfilment type byte, an unknown type
\* byte and a request with a byte missing
LegacyPayloads ==
  LET request == <<0>> \o legacy_encode_vrf_request(
                    [requester |-> EvmAddress(1), seed |-> LegacySeed, num_words |-> 1,
                     callback_data |-> <<5, 5>>])
  IN {request, <<>>, <<1>> \o Tail(request), <<2>> \o Tail(request),
      Slice(request, 0, Len(request) - 1)}

LegacyReceiveInputs ==
  [is_signer : {TRUE}, receiver : {"alice"}, src_chain_id : {ETHEREUM_CHAIN_ID},
   src_address : {PeerA, PeerB}, nonce : LegacyNonces, payload : LegacyPayloads]
  \cup [is_signer : BOOLEAN, receiver : Users, src_chain_id : {SOLANA_CHAIN_ID, ETHEREUM_CHAIN_ID},
        src_address : {PeerA}, nonce : {1}, payload : LegacyPayloads]

LegacyPath(a) == <<a.receiver, a.src_chain_id, a.src_address>>

ReceiveMessageCall(w, now, a) ==
  receive_message(w, now, a.is_signer, a.receiver, a.src_chain_id, a.src_address,
                  a.nonce, a.payload)

LegacyReceiveMessage ==
  \E a \in LegacyReceiveInputs :
    /\ AcceptedCount(legacy) < MaxLegacyMsgs
    /\ LegacyCommit(Recorded(legacy, ReceiveMessageCall(legacy, slot, a), LegacyPath(a), a.nonce))

LegacyFulfillmentInputs ==
  [is_signer : {TRUE}, receiver : {"alice"}, src_chain_id : {ETHEREUM_CHAIN_ID},
   src_address : {PeerA, PeerB}, nonce : LegacyNonces]
  \cup [is_signer : BOOLEAN, receiver : Users, src_chain_id : {SOLANA_CHAIN_ID, ETHEREUM_CHAIN_ID},
        src_address : {PeerA}, nonce : {1}]

ReceiveVrfFulfillmentCall(w, a) ==
  receive_vrf_fulfillment(w, a.is_signer, a.receiver, a.src_chain_id, a.src_address,
                          a.nonce, Repeat(0, 32), Repeat(3, 64))

LegacyReceiveVrfFulfillment ==
  \E a \in LegacyFulfillmentInputs :
    /\ AcceptedCount(legacy) < MaxLegacyMsgs
    /\ LegacyCommit(Recorded(legacy, ReceiveVrfFulfillmentCall(legacy, a), LegacyPath(a), a.nonce))

\* a payload one byte longer than the limit
LongPayload == Repeat(0, MAX_PAYLOAD_SIZE + 1)

LegacySendInputs ==
  [is_signer : {TRUE}, sender : Users, dst_chain_id : {SOLANA_CHAIN_ID, ETHEREUM_CHAIN_ID},
   payload : {<<1>>}, fee : {0, 1}]
  \cup [is_signer : BOOLEAN, sender : {"alice"}, dst_chain_id : {ETHEREUM_CHAIN_ID},
        payload : {<<1>>, LongPayload}, fee : {0}]

SendMessageCall(w, a) ==
  send_message(w, a.is_signer, a.sender, a.dst_chain_id, a.payload, a.fee)

LegacySendMessage ==
  \E a \in LegacySendInputs :
    /\ legacy.event_tracker.next_event_id < MaxLegacySends
    /\ LegacyCommit(Atomic(legacy, SendMessageCall(legacy, a)))

\* the ids of the pending requests of an OApp, and an id of none
LegacyRequestIds(w, owner) ==
  {[keccak |-> <<>>]}
  \cup (IF owner \in DOMAIN w.oapps
        THEN {w.oapps[owner].pending_requests[i].request_id :
                i \in DOMAIN w.oapps[owner].pending_requests}
        ELSE {})

LegacySendFulfillmentInputs(w) ==
  UNION {[is_signer : BOOLEAN, sender : {s},
          dst_chain_id : {SOLANA_CHAIN_ID, ETHEREUM_CHAIN_ID},
          request_id : LegacyRequestIds(w, s), fee : {0}] : s \in Users}

SendVrfFulfillmentCall(w, a) ==
  send_vrf_fulfillment(w, a.is_signer, a.sender, a.dst_chain_id, a.request_id,
                       Repeat(3, 64), a.fee)

LegacySendVrfFulfillment ==
  \E a \in LegacySendFulfillmentInputs(legacy) :
    /\ legacy.event_tracker.next_event_id < MaxLegacySends
    /\ LegacyCommit(Atomic(legacy, SendVrfFulfillmentCall(legacy, a)))

\* the owner of the first OApp opens the accounts of the anchor program the
\* requests go to: a subscription, its balance and its pool
LegacyOpenSubscription ==
  /\ "alice" \in DOMAIN legacy.oapps
  /\ anchor' = kamui_vrf_create_enhanced_subscription(
                  anchor, TRUE, "alice", "s1", CreateBase("s1").min_balance,
                  CreateBase("s1").confirmations, CreateBase("s1").max_requests).w
  /\ UNCHANGED <<coordinator, testprog, lz, codec, legacy>>

LegacyFundSubscription ==
  /\ "s1" \in DOMAIN anchor.subs
  /\ anchor.subs["s1"].balance = 0
  /\ anchor' = kamui_vrf_fund_subscription(anchor, TRUE, "s1", 2000000).w
  /\ UNCHANGED <<coordinator, testprog, lz, codec, legacy>>

LegacyOpenPool ==
  /\ anchor' = kamui_vrf_initialize_request_pool(
                  anchor, slot, TRUE, "alice", "s1", PoolAddress("s1", 1), 1,
                  PoolBase.max_size).w
  /\ UNCHANGED <<coordinator, testprog, lz, codec, legacy>>

LegacyProcessInputs(vrf) ==
  [is_signer : {TRUE}, processor : Users, sub_acct : SubAccts,
   request_account : {FreshRequestAccount(vrf)}, seed : {LegacySeed},
   num_words : {1}, pool_id : {1}]
  \cup [is_signer : BOOLEAN, processor : {"alice"}, sub_acct : {"s1"},
        request_account : {FreshRequestAccount(vrf)}, seed : {LegacySeed, Repeat(8, 32)},
        num_words : {0, 1}, pool_id : {1, 2}]

ProcessVrfRequestCall(w, vrf, now, a) ==
  process_vrf_request(w, vrf, now, a.is_signer, a.processor, a.sub_acct,
                      PoolAddress(a.sub_acct, 1), a.request_account, a.seed,
                      <<5, 5>>, a.num_words, a.pool_id)

LegacyProcessVrfRequest ==
  \E a \in LegacyProcessInputs(anchor) :
    LET r == ProcessVrfRequestCall(legacy, anchor, slot, a)
    IN /\ legacy' = IF r.err = "Ok" THEN r.w.legacy ELSE legacy
       /\ anchor' = IF r.err = "Ok" THEN r.w.vrf ELSE anchor
       /\ UNCHANGED <<coordinator, testprog, lz, codec>>
(***************************************************************************)
(* The coordinator starts with no account: no subscription, pool, request  *)
(* or result, no oracle registry and no oracle.                            *)
(***************************************************************************)
EmptyWorld ==
  [subs |-> <<>>, pools |-> <<>>, reqs |-> <<>>, res |-> <<>>,
   reg |-> NoRegistry, orc |-> <<>>, ext |-> ForeignAccounts]

Init ==
  /\ slot = 0
  /\ ticks = 0
  /\ subscriptions = EmptyWorld.subs
  /\ pools = EmptyWorld.pools
  /\ requests = EmptyWorld.reqs
  /\ results = EmptyWorld.res
  /\ registry = EmptyWorld.reg
  /\ oracles = EmptyWorld.orc
  /\ anchor = NoAccounts
  /\ testprog = NoAccounts
  /\ lz = NoLayerZero
  /\ codec = NoCodecCall
  /\ legacy = NoLegacy

Next ==
  \/ Tick
  \/ CreateSubscription
  \/ FundSubscription
  \/ InitializeRequestPool
  \/ RequestRandomness
  \/ FulfillRandomness
  \/ CancelRequest
  \/ CleanExpiredRequests
  \/ ProcessRequestBatch
  \/ InitializeOracleRegistry
  \/ RegisterOracle
  \/ DeactivateOracle
  \/ RotateOracles
  \/ UpdateOracleReputation

Spec == Init /\ [][Next]_vars

(***************************************************************************)
(* The test-kamui program, from the same initial state.                    *)
(***************************************************************************)
TestNext ==
  \/ TestCreateSubscription
  \/ TestFundSubscription
  \/ TestInitializeRequestPool
  \/ TestRequestRandomness
  \/ TestFulfillRandomness

TestSpec == Init /\ [][TestNext]_vars

(***************************************************************************)
(* The anchor program, from the same initial state.                        *)
(***************************************************************************)
AnchorNext ==
  \/ AnchorCreateSubscription
  \/ AnchorFundSubscription
  \/ AnchorInitializeRequestPool
  \/ AnchorRequestRandomness
  \/ AnchorFulfillRandomness
  \/ AnchorCreateCompressedVrfAccounts
  \/ AnchorRequestCompressedRandomness
  \/ AnchorFulfillCompressedRandomness

\* the program as built without and with the feature "compressed-accounts"
AnchorInit ==
  /\ slot = 0
  /\ ticks = 0
  /\ subscriptions = EmptyWorld.subs
  /\ pools = EmptyWorld.pools
  /\ requests = EmptyWorld.reqs
  /\ results = EmptyWorld.res
  /\ registry = EmptyWorld.reg
  /\ oracles = EmptyWorld.orc
  /\ anchor \in {NoAccounts, CompressedBuild}
  /\ testprog = NoAccounts
  /\ lz = NoLayerZero
  /\ codec = NoCodecCall
  /\ legacy = NoLegacy

AnchorSpec == AnchorInit /\ [][AnchorNext]_vars


LzNext ==
  \/ LzInitStore
  \/ LzSetPeerConfig
  \/ LzEndpointVerify
  \/ LzReceive
  \/ LzSetDelegate
  \/ LzFulfillVrf

LzSpec == Init /\ [][LzNext]_vars

CodecNext == CodecCall

CodecSpec == Init /\ [][CodecNext]_vars

(***************************************************************************)
(* The oracle registry of the anchor program.                              *)
(***************************************************************************)
OracleNext ==
  \/ OracleTick
  \/ AnchorInitializeOracleRegistry
  \/ AnchorRegisterOracle
  \/ AnchorRotateOracles

OracleSpec == Init /\ [][OracleNext]_vars

(***************************************************************************)
(* The OApp under VRF traffic from one peer.                               *)
(***************************************************************************)
BacklogNext ==
  \/ BacklogInitStore
  \/ BacklogSetPeer
  \/ BacklogVerify
  \/ BacklogReceive
  \/ BacklogFulfillVrf

BacklogSpec == Init /\ [][BacklogNext]_vars

(***************************************************************************)
(* The first LayerZero program.                                            *)
(***************************************************************************)
LegacyNext ==
  \/ LegacyInitializeEndpoint
  \/ LegacyRegisterOApp
  \/ LegacySetTrustedRemote
  \/ LegacyReceiveMessage
  \/ LegacyReceiveVrfFulfillment
  \/ LegacySendMessage
  \/ LegacySendVrfFulfillment
  \/ LegacyOpenSubscription
  \/ LegacyFundSubscription
  \/ LegacyOpenPool
  \/ LegacyProcessVrfRequest

LegacySpec == Init /\ [][LegacyNext]_vars

(***************************************************************************)
(* The anchor program with one subscription of the largest request limit.  *)
(***************************************************************************)
CapacityNext ==
  \/ LargeCreateSubscription
  \/ LargeFundSubscription
  \/ OpenLargePool
  \/ RequestAgain
  \/ SettleEarly

CapacitySpec == Init /\ [][CapacityNext]_vars
(***************************************************************************)
(* Properties.  A property of a call is stated over every call the         *)
(* actions can make in the current state: the handler applied to the       *)
(* accounts as they are.  A property of the accounts between transactions  *)
(* is stated over every reachable state.                                   *)
(***************************************************************************)
Then(r, Call(_)) == IF r.err = "Ok" THEN Call(r.w) ELSE r

\* the (pool, position) pairs of the Pending entries in the pools of
\* subscription s
PendingEntries(w, s) ==
  {pi \in UNION {{<<p, i>> : i \in DOMAIN w.pools[p].request_entries} : p \in DOMAIN w.pools} :
     /\ w.pools[pi[1]].subscription = s
     /\ w.pools[pi[1]].request_entries[pi[2]].data.status = "Pending"}

\* C1: after any sequence of operations every subscription's active_requests
\* equals the number of requests with status Pending in the pools of that
\* subscription (the test-kamui program).
C1_ActiveRequestsCountPending ==
  \A s \in DOMAIN testprog.subs :
    testprog.subs[s].active_requests = Cardinality(PendingEntries(testprog, s))

\* the pool of a request record holds an entry with the index of the record,
\* and the status of that entry is the status of the record
RecordMatchesSummary(w, ra) ==
  LET request == w.reqs[ra]
      p == PoolAddress(request.subscription, request.pool_id)
  IN /\ p \in DOMAIN w.pools
     /\ anchor_find_request(w.pools[p], request.request_index) # 0
     /\ w.pools[p].request_entries[
          anchor_find_request(w.pools[p], request.request_index)].data.status
          = request.status

\* C3: between transactions the status stored on a RandomnessRequest record
\* equals the status of its RequestSummary in the pool (the anchor program).
C3_RecordStatusEqualsSummaryStatus ==
  \A ra \in DOMAIN anchor.reqs : RecordMatchesSummary(anchor, ra)

\* C4: a fulfill_randomness call on a Pending request with a proof that does
\* not verify for the request's seed under the supplied public key fails
\* with ProofVerificationFailed, does not set the request Fulfilled and
\* persists no VrfResult (the anchor program).
C4_FulfilledOnlyWithVerifiedProof ==
  \A a \in AnchorFulfillInputs(anchor) :
    (/\ a.request_account \in DOMAIN anchor.reqs
     /\ anchor.reqs[a.request_account].status = "Pending"
     /\ a = [CallArgs(anchor, a.request_account) EXCEPT !.proof = a.proof]
     /\ ProofLen(a.proof) = 80
     /\ ~ecvrf_verify(a.public_key, anchor.reqs[a.request_account].seed, a.proof))
    => /\ AnchorFulfillCall(anchor, slot, a).err = "ProofVerificationFailed"
       /\ AnchorFulfillCall(anchor, slot, a).w.reqs[a.request_account].status = "Pending"
       /\ AnchorFulfillCall(anchor, slot, a).w.res = anchor.res

\* the status of the pool entry of a request record
SummaryStatus(w, ra) ==
  LET request == w.reqs[ra]
      pool == w.pools[PoolAddress(request.subscription, request.pool_id)]
  IN pool.request_entries[anchor_find_request(pool, request.request_index)].data.status

\* C6: fulfill_randomness on a Pending request whose age exceeds the expiry
\* window fails with RequestExpired and leaves the request record and its
\* pool summary Expired: the call is made with the request's own accounts
\* and proof when REQUEST_EXPIRY_SLOTS + 1 slots have passed since the
\* request (the anchor program).
C6_ExpiredRequestIsMarkedExpired ==
  \A ra \in DOMAIN anchor.reqs :
    (anchor.reqs[ra].status = "Pending" /\ RecordMatchesSummary(anchor, ra)) =>
      LET f == AnchorFulfillCall(anchor,
                                 anchor.reqs[ra].request_slot + REQUEST_EXPIRY_SLOTS + 1,
                                 CallArgs(anchor, ra))
      IN /\ f.err = "RequestExpired"
         /\ f.w.reqs[ra].status = "Expired"
         /\ SummaryStatus(f.w, ra) = "Expired"
         /\ ra \notin DOMAIN f.w.res

\* C7: a second fulfill_randomness with the same request id and proof on a
\* Fulfilled request fails with RequestNotPending and leaves the request,
\* its summary, the VrfResult and the subscription unchanged (the anchor
\* program).
C7_ReplayedFulfilIsRefused ==
  \A ra \in DOMAIN anchor.res :
    anchor.reqs[ra].status = "Fulfilled" =>
      LET second == AnchorFulfillCall(anchor, slot,
                      [CallArgs(anchor, ra) EXCEPT !.proof = anchor.res[ra].proof])
      IN /\ second.err = "RequestNotPending"
         /\ second.w = anchor

\* C8: between transactions every subscription's active_requests equals the
\* number of entries of its request_keys list (the anchor program).
C8_ActiveRequestsCountKeys ==
  \A s \in DOMAIN anchor.subs :
    anchor.subs[s].active_requests = Len(anchor.subs[s].request_keys)

\* a request_randomness call that is signed, names a subscription that holds
\* its min_balance and a pool of that subscription, brings a fresh request
\* account and has every parameter in its range
WellFormedRequest(w, a) ==
  /\ a.is_signer
  /\ a.sub_acct \in DOMAIN w.subs
  /\ a.pool_acct \in DOMAIN w.pools
  /\ a.request_account \notin DOMAIN w.reqs
  /\ w.subs[a.sub_acct].balance >= w.subs[a.sub_acct].min_balance
  /\ a.pool_acct = PoolAddress(a.sub_acct, a.pool_id)
  /\ w.pools[a.pool_acct].subscription = a.sub_acct
  /\ w.pools[a.pool_acct].pool_id = a.pool_id
  /\ a.minimum_confirmations >= MINIMUM_REQUEST_CONFIRMATIONS
  /\ a.minimum_confirmations <= MAXIMUM_REQUEST_CONFIRMATIONS
  /\ a.num_words >= 1 /\ a.num_words <= MAXIMUM_RANDOM_WORDS
  /\ a.callback_gas_limit >= MINIMUM_CALLBACK_GAS_LIMIT
  /\ a.callback_gas_limit <= MAXIMUM_CALLBACK_GAS_LIMIT
  /\ Len(a.callback_data) <= 256

\* C10: no pool's request_count exceeds its max_size, and request_randomness
\* on a pool whose request_count equals max_size fails with
\* PoolCapacityExceeded and admits nothing (the anchor program).
C10_RequestCountWithinMaxSize ==
  /\ \A p \in DOMAIN anchor.pools :
       anchor.pools[p].request_count <= anchor.pools[p].max_size
  /\ \A a \in KamuiRequestInputs(anchor) :
       (/\ WellFormedRequest(anchor, a)
        /\ anchor.subs[a.sub_acct].active_requests < anchor.subs[a.sub_acct].max_requests
        /\ anchor.pools[a.pool_acct].request_count = anchor.pools[a.pool_acct].max_size)
       => /\ AnchorRequestCall(anchor, slot, a).err = "PoolCapacityExceeded"
          /\ AnchorRequestCall(anchor, slot, a).w = anchor

(***************************************************************************)
(* Request indices.                                                        *)
(***************************************************************************)
\* the entries of a pool of an anchor program carry the indices 0, 1, 2, ...
\* in the order in which they were pushed
EntriesInOrder(pool) ==
  \A i \in 1..Len(pool.request_entries) : pool.request_entries[i].index = i - 1

\* the summaries of a pool of the coordinator carry the indices
\* 0 .. request_count - 1
SummariesInOrder(pool) == DOMAIN pool.requests = 0..(pool.request_count - 1)

\* C11: within a pool the first request gets index 0 and each later request
\* the highest index so far plus one, so indices increase strictly in the
\* order in which request_randomness committed and no index is given to two
\* requests: a successful request_randomness adds exactly the index
\* max(existing) + 1 (0 on an empty pool), and in every pool of every
\* deployment the n requests admitted so far carry the indices 0 .. n-1 in
\* insertion order.
C11_IndicesFollowInsertionOrder ==
  /\ \A p \in DOMAIN pools : SummariesInOrder(pools[p])
  /\ \A a \in RequestInputs :
       LET r == RequestCall(World, slot, a)
       IN r.err = "Ok" =>
            DOMAIN r.w.pools[a.pool_acct].requests =
              DOMAIN pools[a.pool_acct].requests
                \cup {IF DOMAIN pools[a.pool_acct].requests = {} THEN 0
                      ELSE MaxOf(DOMAIN pools[a.pool_acct].requests) + 1}
  /\ \A p \in DOMAIN anchor.pools : EntriesInOrder(anchor.pools[p])
  /\ \A p \in DOMAIN testprog.pools : EntriesInOrder(testprog.pools[p])

(***************************************************************************)
(* The effect of request_randomness on the subscription.                   *)
(***************************************************************************)
\* what a successful request with the new id does to its subscription
RequestCharged(before, after, request_id) ==
  /\ after.balance = before.balance - before.min_balance
  /\ after.active_requests = before.active_requests + 1
  /\ after.request_keys = Append(before.request_keys, Truncate16(request_id))
  /\ after.request_counter = before.request_counter + 1

\* C12: a successful request_randomness deducts exactly min_balance from the
\* subscription's balance, adds one to active_requests, appends the 16-byte
\* fingerprint of the new request id to request_keys and adds one to
\* request_counter; the first request of a subscription, as in scenario E1
\* (min_balance 1_000_000, funded with 5_000_000: balance 4_000_000), has
\* request_index 0 and leaves active_requests 1 and the balance smaller by
\* min_balance (the anchor program).
C12_RequestChargesSubscription ==
  \A a \in KamuiRequestInputs(anchor) :
    LET r == AnchorRequestCall(anchor, slot, a)
    IN r.err = "Ok" =>
         /\ RequestCharged(anchor.subs[a.sub_acct], r.w.subs[a.sub_acct],
                           r.w.reqs[a.request_account].request_id)
         /\ anchor.subs[a.sub_acct].request_counter = 0 =>
              /\ r.w.reqs[a.request_account].request_index = 0
              /\ r.w.subs[a.sub_acct].active_requests = 1
              /\ r.w.subs[a.sub_acct].balance =
                   anchor.subs[a.sub_acct].balance - 1000000

(***************************************************************************)
(* The randomness stored by a fulfilment.                                  *)
(***************************************************************************)
\* a stored result whose randomness is num_words words, word i being the
\* digest of (request_id, i) written twice
RandomnessDerivedFrom(result, request_id, num_words) ==
  /\ Len(result.randomness) = num_words
  /\ \A i \in 1..num_words :
       /\ Len(result.randomness[i]) = 2
       /\ result.randomness[i][1] = Keccak(<<request_id, i - 1>>)
       /\ result.randomness[i][2] = result.randomness[i][1]

\* C18: after a successful fulfill_randomness the stored VrfResult.randomness
\* holds exactly num_words words of 64 bytes, word i being
\* H(request_id || i) written twice (the anchor program).
C18_RandomnessIsDerivedFromRequestId ==
  \A a \in AnchorFulfillInputs(anchor) :
    LET r == AnchorFulfillCall(anchor, slot, a)
    IN r.err = "Ok" =>
         /\ a.request_account \in DOMAIN r.w.res
         /\ RandomnessDerivedFrom(r.w.res[a.request_account], a.request_id,
                                  anchor.reqs[a.request_account].num_words)

(***************************************************************************)
(* The sender of an inbound message.                                       *)
(***************************************************************************)
\* the sender of the call is the peer configured for its source endpoint
FromConfiguredPeer(w, params) ==
  /\ params.src_eid \in DOMAIN w.peers
  /\ params.sender = w.peers[params.src_eid].peer_address

\* the claim as it stands: lz_receive processes a message only if
\* params.sender is the peer address configured for params.src_eid, and with
\* any other sender it fails with InvalidSender and changes nothing
C19_AnyOtherSenderIsInvalidSender ==
  \A a \in LzReceiveInputs(lz) :
    LET r == LzReceiveCall(lz, slot, a)
    IN /\ r.err = "Ok" => FromConfiguredPeer(lz, a.params)
       /\ ~FromConfiguredPeer(lz, a.params) => r.err = "InvalidSender" /\ r.w = lz

\* a call that passes the peer account of its source endpoint, which exists,
\* and whose sender is not the peer address in it
C19_Applies(a) ==
  /\ lz.store.initialized
  /\ a.peer_acct = a.params.src_eid
  /\ a.params.src_eid \in DOMAIN lz.peers
  /\ a.params.sender # lz.peers[a.params.src_eid].peer_address

\* C19 (amended): lz_receive processes a message only if params.sender is
\* the peer address configured for params.src_eid: a call that succeeds
\* comes from the configured peer, a call with any other sender fails and
\* changes nothing, and it fails with InvalidSender when the Store exists
\* and the call passes the peer account of params.src_eid, which exists.
C19_OnlyThePeerIsReceived ==
  \A a \in LzReceiveInputs(lz) :
    LET r == LzReceiveCall(lz, slot, a)
    IN /\ r.err = "Ok" => FromConfiguredPeer(lz, a.params)
       /\ ~FromConfiguredPeer(lz, a.params) => r.err # "Ok" /\ r.w = lz
       /\ C19_Applies(a) => r.err = "InvalidSender" /\ r.w = lz

\* a message of the peer has been received, and the Endpoint holds a verified
\* message whose sender is the peer address with one bit flipped: the call
\* for it fails with InvalidSender
C19_Witness ==
  /\ lz.received # {}
  /\ \E a \in LzReceiveInputs(lz) :
       /\ C19_Applies(a)
       /\ a.clear_accounts
       /\ a.params \in lz.endpoint.payloads
       /\ a.params.sender = FlipBit(lz.peers[a.params.src_eid].peer_address)
       /\ LzReceiveCall(lz, slot, a).err = "InvalidSender"

(***************************************************************************)
(* Replay of an inbound message.                                           *)
(***************************************************************************)
\* C20: lz_receive changes the store only after the Endpoint has cleared the
\* payload of exactly its (src_eid, sender, nonce, guid, message), which the
\* Endpoint holds before the call and no longer after it, and a call with
\* the parameters of a message received before fails and changes nothing.
C20_MessageIsAppliedOnce ==
  \A a \in LzReceiveInputs(lz) :
    LET r == LzReceiveCall(lz, slot, a)
    IN /\ (r.err = "Ok" \/ r.w.store # lz.store) =>
            /\ a.params \in lz.endpoint.payloads
            /\ r.w.endpoint.payloads = lz.endpoint.payloads \ {a.params}
       /\ a.params \in lz.received => r.err # "Ok" /\ r.w = lz

\* a message has been received and the call is made again with the same
\* parameters and accounts: it reaches the clear, which fails
C20_Witness ==
  \E a \in LzReceiveInputs(lz) :
    /\ a.params \in lz.received
    /\ a.clear_accounts
    /\ a.peer_acct = a.params.src_eid
    /\ FromConfiguredPeer(lz, a.params)
    /\ LzReceiveCall(lz, slot, a).err = "EndpointClearFailed"

(***************************************************************************)
(* Payloads that cannot be decoded or dispatched.                          *)
(***************************************************************************)
\* a call that passes the account checks and whose payload the Endpoint holds
ReachesDispatch(w, a) ==
  /\ w.store.initialized
  /\ a.clear_accounts
  /\ a.peer_acct = a.params.src_eid
  /\ a.params.src_eid \in DOMAIN w.peers
  /\ a.params.sender = w.peers[a.params.src_eid].peer_address
  /\ a.params \in w.endpoint.payloads

\* the payload decodes as the variant its first byte names, and the variant
\* can be applied to the store: a request can be enqueued, a fulfilment
\* matches an unfulfilled pending request
Dispatchable(store, message) ==
  LET type == decode_message_type(message)
  IN IF type.ok /\ type.val = "VrfRequest"
     THEN /\ decode_vrf_request(message).ok
          /\ Len(store.pending_requests) < MAX_VRF_REQUESTS
     ELSE IF type.ok /\ type.val = "VrfFulfillment"
     THEN /\ decode_vrf_fulfillment(message).ok
          /\ \E i \in DOMAIN store.pending_requests :
               /\ store.pending_requests[i].request_id =
                    decode_vrf_fulfillment(message).val.request_id
               /\ ~store.pending_requests[i].fulfilled
     ELSE decode(message).ok

\* C21: lz_receive never reports success for a payload it could not decode or
\* dispatch: a malformed payload, a VRF request that cannot be enqueued and a
\* VRF fulfilment that matches no unfulfilled pending request make the call
\* fail with an error.
C21_UndispatchedPayloadFails ==
  \A a \in LzReceiveInputs(lz) :
    (ReachesDispatch(lz, a) /\ ~Dispatchable(lz.store, a.params.message)) =>
      LzReceiveCall(lz, slot, a).err # "Ok"

(***************************************************************************)
(* The encoding of the VRF payloads.                                       *)
(***************************************************************************)
\* C23: the decoder returns every VRF request payload from its encoding,
\* which is exactly 102 bytes, and every VRF fulfilment payload from its
\* encoding, which is exactly 97 bytes, in the codec of standalone-layerzero
\* and in the codec of kamui-layerzero.
C23_PayloadsRoundTrip ==
  /\ codec.op = "encode_vrf_request" =>
       /\ Len(codec.output.val) = 102
       /\ decode_vrf_request(codec.output.val) = Okv(codec.input)
  /\ codec.op = "encode_vrf_fulfillment" =>
       /\ Len(codec.output.val) = 97
       /\ decode_vrf_fulfillment(codec.output.val) = Okv(codec.input)
  /\ codec.op = "kamui_layerzero_encode_vrf_request" =>
       /\ Len(codec.output.val) = 102
       /\ kamui_layerzero_decode_vrf_request(codec.output.val) = Okv(codec.input)
  /\ codec.op = "kamui_layerzero_encode_vrf_fulfillment" =>
       Len(codec.output.val) = 97

\* scenario E4
E4_Payload == [msg_type |-> "VrfRequest", requester |-> Repeat(17, 32), seed |-> Repeat(34, 32), callback_data |-> Repeat(51, 32), num_words |-> 7, pool_id |-> 5]

\* C24: encode_vrf_request writes the tag 0, the requester, the seed and the
\* callback data (32 bytes each), num_words as 4 bytes with the most
\* significant first, and pool_id, with no length before any field; for E4
\* the output is 102 bytes that end with 0 0 0 7 5.
C24_RequestLayout ==
  codec.op = "encode_vrf_request" =>
    LET out == codec.output.val
        p == codec.input
    IN /\ Len(out) = 102
       /\ out[1] = 0
       /\ SubSeq(out, 2, 33) = p.requester
       /\ SubSeq(out, 34, 65) = p.seed
       /\ SubSeq(out, 66, 97) = p.callback_data
       /\ ((out[98] * 256 + out[99]) * 256 + out[100]) * 256 + out[101] = p.num_words
       /\ out[102] = p.pool_id
       /\ p = E4_Payload =>
            out = <<0>> \o Repeat(17, 32) \o Repeat(34, 32) \o Repeat(51, 32) \o <<0, 0, 0, 7, 5>>

\* the payload of E4 has been encoded
C24_Witness ==
  /\ codec.op = "encode_vrf_request"
  /\ codec.input = E4_Payload
  /\ Len(codec.output.val) = 102

\* C25: decoding a VRF request from fewer than 102 bytes, or a VRF fulfilment
\* from fewer than 97 bytes, fails with InvalidLength, and decoding a buffer
\* whose first byte is not the tag of the variant (0 for a request, 1 for a
\* fulfilment) fails with InvalidTag; no payload is returned in either case.
C25_DecodeRejectsShortAndMistagged ==
  /\ codec.op = "decode_vrf_request" =>
       /\ Len(codec.input) < 102 => codec.output = Errv("InvalidLength")
       /\ (Len(codec.input) >= 102 /\ codec.input[1] # 0) =>
            codec.output = Errv("InvalidTag")
  /\ codec.op = "decode_vrf_fulfillment" =>
       /\ Len(codec.input) < 97 => codec.output = Errv("InvalidLength")
       /\ (Len(codec.input) >= 97 /\ codec.input[1] # 1) =>
            codec.output = Errv("InvalidTag")
(***************************************************************************)
(* The ranges of the request parameters.                                   *)
(***************************************************************************)
\* a call with one of the three parameters set to a value at or next to an
\* end of its range
C26_Variants(a) ==
  {[a EXCEPT !.num_words = n] : n \in {0, 1, 100, 101}}
  \cup {[a EXCEPT !.minimum_confirmations = c] : c \in {0, 1, 255}}
  \cup {[a EXCEPT !.callback_gas_limit = g] : g \in {9999, 10000, 1000000, 1000001}}

C26_InRange(v) ==
  /\ v.num_words >= 1 /\ v.num_words <= 100
  /\ v.minimum_confirmations >= 1 /\ v.minimum_confirmations <= 255
  /\ v.callback_gas_limit >= 10000 /\ v.callback_gas_limit <= 1000000

\* the error kind of the parameter that is out of range
C26_OwnError(v) ==
  IF v.num_words < 1 \/ v.num_words > 100 THEN "InvalidWordCount"
  ELSE IF v.minimum_confirmations < 1 \/ v.minimum_confirmations > 255
  THEN "InvalidConfirmations"
  ELSE "InvalidGasLimit"

C27_RequestLimit ==
  /\ \A s \in DOMAIN anchor.subs :
       /\ anchor.subs[s].active_requests <= anchor.subs[s].max_requests
       /\ anchor.subs[s].max_requests <= 100
  /\ \A a \in KamuiRequestInputs(anchor) :
       (/\ WellFormedRequest(anchor, a)
        /\ anchor.subs[a.sub_acct].active_requests = anchor.subs[a.sub_acct].max_requests)
       => /\ AnchorRequestCall(anchor, slot, a).err = "TooManyRequests"
          /\ AnchorRequestCall(anchor, slot, a).w = anchor

(***************************************************************************)
(* Rotation of the oracles.                                                *)
(***************************************************************************)
RotationDue(reg, now) == now >= reg.last_rotation + reg.rotation_frequency

\* C28: rotate succeeds only when current_slot >= last_rotation +
\* rotation_frequency and then sets last_rotation to current_slot; otherwise
\* it fails with RotationNotDue and leaves last_rotation unchanged (the
\* anchor program, a signed call on its registry).
C28_RotationOnlyWhenDue ==
  \A a \in AnchorRotateInputs :
    (a.is_signer /\ anchor.reg.initialized) =>
      LET r == AnchorRotateCall(anchor, slot, a)
      IN IF RotationDue(anchor.reg, slot)
         THEN r.err = "Ok" /\ r.w.reg.last_rotation = slot
         ELSE r.err = "RotationNotDue" /\ r.w = anchor

(***************************************************************************)
(* Rotation by the registry admin.                                         *)
(***************************************************************************)
\* C29: a rotate_oracles call signed by the registry admin succeeds when the
\* registry has been initialised with rotation_frequency 500 and fewer than
\* 500 slots have passed since: the admin can rotate whether or not a
\* rotation is due (the coordinator, on its registry account).
C29_AdminRotatesAtAnyTime ==
  (/\ registry.initialized
   /\ registry.rotation_frequency = ORACLE_ROTATION_FREQUENCY
   /\ ~RotationDue(registry, slot)) =>
    LET r == RotateCall(World, slot,
                        [is_signer |-> TRUE, signer |-> registry.admin,
                         registry_account |-> RegistryAddress])
    IN /\ transaction_result(World, r) = "Ok"
       /\ process_transaction(World, r).reg.last_rotation = slot

(***************************************************************************)
(* Who may report on an oracle.                                            *)
(***************************************************************************)
\* C30: only the registry admin can change an oracle's reputation or its
\* fulfilment and failure counters: update_reputation on the registry of the
\* program signed by anyone else fails with InvalidAdmin and changes
\* nothing, and every call that changes an account is signed by the admin
\* (the coordinator).
C30_OnlyAdminUpdatesReputation ==
  \A a \in ReputationInputs :
    LET r == ReputationCall(World, slot, a)
    IN /\ (/\ registry.initialized
           /\ a.is_signer
           /\ a.registry_account = RegistryAddress
           /\ a.signer # registry.admin) =>
            /\ transaction_result(World, r) = "InvalidAdmin"
            /\ process_transaction(World, r) = World
       /\ process_transaction(World, r) # World =>
            a.is_signer /\ a.signer = registry.admin

(***************************************************************************)
(* Scenario E6: the reputation of an oracle after its first reports.       *)
(***************************************************************************)
\* C31: in scenario E6, for an oracle of stake min_stake + 1 without reports,
\* update_reputation(successes 9, failures 1) results in reputation 9000 and
\* a following update_reputation(successes 0, failures 9) in reputation 47:
\* the handler is given a registry whose admin signs and the account of such
\* an oracle, and the reputations are those it writes (the coordinator).
C31_E6_Reputation ==
  LET first == ReputationCall(World, slot, E6_Report(9, 1))
      second == Then(first, LAMBDA v : ReputationCall(v, slot, E6_Report(0, 9)))
  IN /\ first.err = "Ok"
     /\ oracle_account_data(first.w, "forged_oracle").reputation = 9000
     /\ second.err = "Ok"
     /\ oracle_account_data(second.w, "forged_oracle").reputation = 47

(***************************************************************************)
(* Registering an authority twice.                                         *)
(***************************************************************************)
\* C32: registering an oracle authority that is already registered fails with
\* OracleAlreadyRegistered and leaves the registry and the existing oracle
\* record (stake, reputation, counters, is_active) unchanged (the anchor
\* program, a signed call).
C32_DuplicateRegistrationFails ==
  \A a \in AnchorRegisterInputs :
    (a.is_signer /\ anchor.reg.initialized /\ Contains(anchor.reg.oracles, a.authority)) =>
      LET r == AnchorRegisterCall(anchor, slot, a)
      IN /\ r.err = "OracleAlreadyRegistered"
         /\ r.w.reg = anchor.reg
         /\ r.w.orc = anchor.orc

(***************************************************************************)
(* Deactivating an oracle.                                                 *)
(***************************************************************************)
\* C33: deactivate succeeds only when signed by the oracle's own authority or
\* by the registry admin: a signed call on an oracle account and a registry
\* by any other signer fails with InvalidOracleAuthority and changes
\* nothing, and after a call that succeeds the oracle has is_active = false
\* and is not a member of the registry's oracle set (the coordinator).
C33_DeactivateByAuthorityOrAdmin ==
  \A a \in DeactivateInputs :
    (/\ a.is_signer
     /\ is_oracle_account(World, a.oracle_account)
     /\ registry_account_data(World, a.registry_account).initialized) =>
      LET r == DeactivateCall(World, a)
          oracle == oracle_account_data(World, a.oracle_account)
          reg == registry_account_data(World, a.registry_account)
          v == process_transaction(World, r)
      IN IF signer_may_deactivate(a.signer, oracle.authority, reg.admin)
         THEN transaction_result(World, r) = "Ok" =>
                /\ ~oracle_account_data(v, a.oracle_account).is_active
                /\ ~Contains(registry_account_data(v, a.registry_account).oracles,
                             oracle.authority)
         ELSE /\ transaction_result(World, r) = "InvalidOracleAuthority"
              /\ v = World

(***************************************************************************)
(* The number of fingerprints and pool ids a subscription holds.           *)
(***************************************************************************)
\* C34: a subscription never holds more than 16 request_keys fingerprints
\* nor more than 16 pool_ids, after any sequence of operations that its
\* max_requests (up to 100) permits.
C34_AtMostSixteenHeld ==
  \A s \in DOMAIN anchor.subs :
    /\ Len(anchor.subs[s].request_keys) <= 16
    /\ Len(anchor.subs[s].pool_ids) <= 16

(***************************************************************************)
(* Pool ids of a subscription.                                             *)
(***************************************************************************)
\* the pools of w are told apart by subscription and id, and each is listed
\* by its subscription
PoolIdsAreListed(w) ==
  /\ \A p, q \in DOMAIN w.pools :
       (/\ w.pools[p].subscription = w.pools[q].subscription
        /\ w.pools[p].pool_id = w.pools[q].pool_id) => p = q
  /\ \A p \in DOMAIN w.pools :
       /\ w.pools[p].subscription \in DOMAIN w.subs
       /\ Contains(w.subs[w.pools[p].subscription].pool_ids, w.pools[p].pool_id)

\* the call is made by someone else than the owner, or names an id that a
\* pool of the subscription has
NotOwnerOrIdInUse(w, a) ==
  /\ a.sub_acct \in DOMAIN w.subs
  /\ \/ w.subs[a.sub_acct].owner # a.owner
     \/ \E p \in DOMAIN w.pools :
          w.pools[p].subscription = a.sub_acct /\ w.pools[p].pool_id = a.pool_id


\* C35: pool ids are unique within a subscription and every existing pool's
\* id is a member of its subscription's pool_ids; initialize_request_pool by
\* a non-owner, or with a pool_id already in use for that subscription, fails
\* and creates no pool.
C35_PoolIdsUniqueAndListed ==
  /\ PoolIdsAreListed(testprog)
  /\ \A a \in AnchorPoolInputs :
       NotOwnerOrIdInUse(testprog, a) =>
         LET r == test_kamui_vrf_initialize_request_pool(
                    testprog, slot, a.is_signer, a.owner, a.sub_acct, a.pool_acct,
                    a.pool_id, a.max_size)
         IN r.err # "Ok" /\ r.w = testprog

(***************************************************************************)
(* Messages of the string encoder.                                         *)
(***************************************************************************)
\* C36: a message produced by the string encoder (a 32-byte header whose last
\* 4 bytes hold the length, then the UTF-8 bytes) and delivered to lz_receive
\* from the configured peer is dispatched as Generic and its string becomes
\* the store's string; it is never taken for a VRF request or a VRF
\* fulfilment.
C36_StringIsDispatchedAsGeneric ==
  \A a \in LzReceiveInputs(lz) :
    (ReachesDispatch(lz, a) /\ a.params.message = encode(Hi)) =>
      LET r == LzReceiveCall(lz, slot, a)
      IN /\ decode_message_type(a.params.message) = Okv("Generic")
         /\ r.err = "Ok"
         /\ r.w.store.string = Hi
         /\ r.w.store.pending_requests = lz.store.pending_requests

(***************************************************************************)
(* The capacity of a pool over its lifetime.                               *)
(***************************************************************************)
Terminal == {"Fulfilled", "Cancelled", "Expired"}

\* every request the pool has admitted is Fulfilled, Cancelled or Expired
AllTerminal(pool) ==
  \A i \in DOMAIN pool.request_entries : pool.request_entries[i].data.status \in Terminal

\* C37: pool capacity is reclaimed when requests finish: a request that is
\* Fulfilled, Cancelled or Expired no longer counts against max_size, so a
\* pool whose earlier requests are all terminal accepts a new request, also
\* when it has admitted max_size requests before (the anchor program).
C37_CapacityIsReclaimed ==
  \A a \in KamuiRequestInputs(anchor) :
    (/\ WellFormedRequest(anchor, a)
     /\ anchor.subs[a.sub_acct].active_requests < anchor.subs[a.sub_acct].max_requests
     /\ Len(anchor.subs[a.sub_acct].request_keys) < 16
     /\ AllTerminal(anchor.pools[a.pool_acct]))
    => AnchorRequestCall(anchor, slot, a).err = "Ok"

(***************************************************************************)
(* Stored requests that have been fulfilled.                               *)
(***************************************************************************)
\* C38: in the cross-chain receiver only the requests not marked fulfilled
\* count toward the limit of pending requests: once the stored requests have
\* been marked fulfilled, the delivery of a VRF request of the peer that the
\* Endpoint holds is accepted.
C38_FulfilledRequestsFreeTheLimit ==
  \A a \in BacklogInputs(lz) :
    (/\ a.params.message = encode_vrf_request(SomeVrfRequest)
     /\ lz.store.pending_requests # <<>>
     /\ Unfulfilled(lz.store) = {})
    => LzReceiveCall(lz, slot, a).err = "Ok"

(***************************************************************************)
(* Who may fulfil.                                                         *)
(***************************************************************************)
\* C40: only a registered oracle that is currently active can fulfil
\* requests: a fulfill_randomness call that moves a request to Fulfilled or
\* creates a VrfResult is made while the registry holds an active oracle,
\* which signs it (the anchor program, whose call names its signer only as
\* a signature).
C40_OnlyActiveOraclesFulfil ==
  \A a \in AnchorFulfillInputs(anchor) :
    LET r == AnchorFulfillCall(anchor, slot, a)
    IN (r.w.res # anchor.res \/ r.w.reqs # anchor.reqs) =>
         \E o \in DOMAIN anchor.orc :
           /\ anchor.orc[o].is_active
           /\ Contains(anchor.reg.oracles, anchor.orc[o].authority)
====
